---- MODULE Spec2Model ----
(***************************************************************************)
(* Erection methodology engine of backend/app/erection_service.py:        *)
(* ErectionMethodologyService with its registries (grid_axes, grid_cells, *)
(* elements, zones, stages, levels) and the operations analyze,           *)
(* update_zone and generate_from_user_sequences; and the methodology      *)
(* review of backend/app/review_service.py and routes/review.py that is   *)
(* made from its zones and stages.                                        *)
(*                                                                         *)
(* Coordinates are whole millimetres.  The positions in the files that    *)
(* are analyzed are multiples of 60 mm, so that every tile width           *)
(* x_range / n (n <= 6) computed by _detect_zones is a whole number and   *)
(* the float arithmetic of the code is exact on them.  SpecTiles takes    *)
(* _detect_zones alone, in the float arithmetic of the code, on ranges    *)
(* that the tile count divides and on ranges that it does not.            *)
(* Strings that the code parses or compares (axis tags, stage ids,        *)
(* element ids) are sequences of one-character strings.                   *)
(***************************************************************************)
EXTENDS Integers, Sequences, FiniteSets, TLC

VARIABLES ifc, levels, grid_axes, grid_cells, elements, zones, stages,
          analyzed, grid_detected, phase, n_analyze, n_edits, n_requests, last_call,
          reviews, n_review_calls

vars == <<ifc, levels, grid_axes, grid_cells, elements, zones, stages,
          analyzed, grid_detected, phase, n_analyze, n_edits, n_requests, last_call,
          reviews, n_review_calls>>

\* what the review service of backend/app/review_service.py holds
review_vars == <<reviews, n_review_calls>>

(***************************************************************************)
(* Bounds of the model                                                     *)
(***************************************************************************)
MaxElems == 3
MaxLevels == 2
MaxSplits == 1
MaxAnalyze == 2
MaxEdits == 2
MaxRequests == 1
MaxSeqs == 2
MaxReviewCalls == 4

(***************************************************************************)
(* Generic helpers                                                         *)
(***************************************************************************)
Range(s) == {s[i] : i \in 1..Len(s)}

Min(S) == CHOOSE m \in S : \A k \in S : m <= k

Max(S) == CHOOSE m \in S : \A k \in S : m >= k

Abs(n) == IF n < 0 THEN -n ELSE n

RECURSIVE Concat(_)
Concat(ss) == IF ss = <<>> THEN <<>> ELSE Head(ss) \o Concat(Tail(ss))

\* list(f): the members of f laid out as a list, each computed once
List(f) == <<>> \o f

\* sorted(s, key=key) / s.sort(key=key): the keys are computed once each and
\* compared by Less; Python's sort is stable
StableSort(s, key(_), Less(_, _)) ==
    LET n == Len(s)
        keys == List([i \in 1..n |-> key(s[i])])
        \* <<number of members that go before s[i], i>>
        ranked == {<<Cardinality({j \in 1..n : Less(keys[j], keys[i])})
                     + Cardinality({j \in 1..(i - 1) :
                                       ~Less(keys[j], keys[i]) /\ ~Less(keys[i], keys[j])}),
                     i>> : i \in 1..n}
    IN  List([k \in 1..n |-> s[(CHOOSE p \in ranked : p[1] = k - 1)[2]]])

\* a < b for numbers, and for pairs of numbers
NumLess(a, b) == a < b

PairLess(a, b) == a[1] < b[1] \/ (a[1] = b[1] /\ a[2] < b[2])

(***************************************************************************)
(* Strings                                                                 *)
(***************************************************************************)
DigitChars == <<"0", "1", "2", "3", "4", "5", "6", "7", "8", "9">>

UpperChars == <<"A", "B", "C", "D", "E", "F", "G", "H", "I", "J", "K", "L", "M",
                "N", "O", "P", "Q", "R", "S", "T", "U", "V", "W", "X", "Y", "Z">>

\* code points of the characters that occur: '-' 45, '.' 46, '0'..'9' 48..57,
\* 'A'..'Z' 65..90, 'g' 103
\* ord(c) for the characters that occur
OrdTable ==
    [c \in {"-", ".", "g"} \cup Range(DigitChars) \cup Range(UpperChars) |->
        IF c = "-" THEN 45
        ELSE IF c = "." THEN 46
        ELSE IF c = "g" THEN 103
        ELSE IF \E i \in 1..10 : DigitChars[i] = c
             THEN 47 + (CHOOSE i \in 1..10 : DigitChars[i] = c)
        ELSE 64 + (CHOOSE i \in 1..26 : UpperChars[i] = c)]

Ord(c) == OrdTable[c]

IsDigitChar(c) == 48 <= Ord(c) /\ Ord(c) <= 57

\* str.isdigit(): non-empty and every character a digit
IsDigit(s) == s # <<>> /\ \A i \in 1..Len(s) : IsDigitChar(s[i])

\* str(n) for n >= 0
RECURSIVE Str(_)
Str(n) == IF n < 10 THEN <<DigitChars[n + 1]>>
          ELSE Str(n \div 10) \o <<DigitChars[(n % 10) + 1]>>

\* int(s) for a digit string s
RECURSIVE IntOf(_)
IntOf(s) == IF Len(s) = 0 THEN 0
            ELSE 10 * IntOf(SubSeq(s, 1, Len(s) - 1)) + (Ord(s[Len(s)]) - 48)

\* str(n).zfill(2)
ZFill2(n) == IF n < 10 THEN <<"0">> \o Str(n) ELSE Str(n)

\* a < b for Python strings: by code point at the first place where they
\* differ, a proper prefix going first
StrLess(a, b) ==
    LET m == Min({Len(a), Len(b)})
        differ == {i \in 1..m : a[i] # b[i]}
    IN  IF differ = {} THEN Len(a) < Len(b)
        ELSE Ord(a[Min(differ)]) < Ord(b[Min(differ)])

RECURSIVE SplitDash(_)
\* s.split('-')
SplitDash(s) ==
    IF \A i \in 1..Len(s) : s[i] # "-" THEN <<s>>
    ELSE LET k == CHOOSE i \in 1..Len(s) :
                      s[i] = "-" /\ \A j \in 1..(i - 1) : s[j] # "-"
         IN  <<SubSeq(s, 1, k - 1)>> \o SplitDash(SubSeq(s, k + 1, Len(s)))

(***************************************************************************)
(* Program constants                                                       *)
(***************************************************************************)
\* ErectionMethodologyService.STRUCTURAL_TYPES, in dict order
Categories == <<"columns", "beams", "bracing", "slabs", "walls", "footings",
                "stairs", "railings">>

STRUCTURAL_TYPES ==
    [c \in Range(Categories) |->
        CASE c = "columns"  -> {"IfcColumn"}
          [] c = "beams"    -> {"IfcBeam"}
          [] c = "bracing"  -> {"IfcMember", "IfcPlate"}
          [] c = "slabs"    -> {"IfcSlab"}
          [] c = "walls"    -> {"IfcWall", "IfcWallStandardCase"}
          [] c = "footings" -> {"IfcFooting"}
          [] c = "stairs"   -> {"IfcStair", "IfcStairFlight"}
          [] c = "railings" -> {"IfcRailing"}]

\* self.STRUCTURAL_TYPES.get(element_type, [])
TypesOf(c) == IF c \in DOMAIN STRUCTURAL_TYPES THEN STRUCTURAL_TYPES[c] ELSE {}

PRIMARY_SEQUENCE == <<"footings", "columns", "beams", "bracing", "slabs">>

SECONDARY_SEQUENCE == <<"walls", "stairs", "railings">>

structural_ifc_types == <<"IfcColumn", "IfcBeam", "IfcMember", "IfcPlate", "IfcSlab",
                          "IfcWall", "IfcWallStandardCase", "IfcFooting", "IfcStair",
                          "IfcRailing">>

zone_size == 30000

max_zones_per_axis == 6

grid_spacing == 10000

labels == <<"A", "B", "C", "D", "E", "F", "G", "H", "J", "K", "L", "M",
            "N", "P", "Q", "R", "S", "T", "U", "V", "W", "X", "Y", "Z">>

tolerance == 500

min_spread == 1000

\* the category counted for an element: the first category of
\* STRUCTURAL_TYPES that lists its type ("" when none does)
CategoryOf(t) ==
    IF \E i \in 1..Len(Categories) : t \in STRUCTURAL_TYPES[Categories[i]]
    THEN Categories[CHOOSE i \in 1..Len(Categories) :
                       /\ t \in STRUCTURAL_TYPES[Categories[i]]
                       /\ \A j \in 1..(i - 1) : t \notin STRUCTURAL_TYPES[Categories[j]]]
    ELSE ""

\* element_counts: category -> number of elements, for the categories present
CountsOf(types) ==
    LET cats == {CategoryOf(types[i]) : i \in 1..Len(types)} \ {""}
    IN  [c \in cats |-> Cardinality({i \in 1..Len(types) : CategoryOf(types[i]) = c})]

(***************************************************************************)
(* Registries                                                              *)
(*   levels     : sequence of [name, elevation]   (dict, insertion order)  *)
(*   grid_axes  : sequence of GridAxis            (dict keyed direction_tag)*)
(*   grid_cells : sequence of GridCell            (dict keyed by name)     *)
(*   elements   : sequence of StructuralElement   (dict keyed by global_id)*)
(*   zones      : function zone_id -> ErectionZone                         *)
(*   stages     : sequence of ErectionStage                                *)
(* The free-text fields of a stage (name, description, instructions) are  *)
(* derived from the fields kept here and are not modelled.                 *)
(***************************************************************************)
GridAxis(tag, direction, position) ==
    [tag |-> tag, direction |-> direction, position |-> position]

\* GridCell.name: f"{u_axis}-{v_axis}"
CellName(u_tag, v_tag) == u_tag \o <<"-">> \o v_tag

GridCell(u_tag, v_tag, x1, x2, y1, y2) ==
    [u_axis |-> u_tag, v_axis |-> v_tag, name |-> CellName(u_tag, v_tag),
     x_min |-> x1, x_max |-> x2, y_min |-> y1, y_max |-> y2]

\* IfcRoot.GlobalId of the entity with express id n: a string that is not a
\* decimal numeral
GlobalId(n) == <<"g">> \o Str(n)

NoCell == <<>>

StructuralElement(fe, level) ==
    [global_id |-> GlobalId(fe.express_id), express_id |-> fe.express_id,
     ifc_type |-> fe.ifc_type, x |-> fe.x, y |-> fe.y, z |-> fe.z,
     level |-> level, grid_cell |-> NoCell]

\* zone and stage labels: the values interpolated into the f-string
ZoneName(id) ==
    [kind |-> "Zone", id |-> id, v_lo |-> <<>>, v_hi |-> <<>>,
     u_lo |-> <<>>, u_hi |-> <<>>, level |-> "", text |-> ""]

GridName(v_lo, v_hi, u_lo, u_hi, level) ==
    [kind |-> "Grid", id |-> 0, v_lo |-> v_lo, v_hi |-> v_hi,
     u_lo |-> u_lo, u_hi |-> u_hi, level |-> level, text |-> ""]

UserName(text) ==
    [kind |-> "User", id |-> 0, v_lo |-> <<>>, v_hi |-> <<>>,
     u_lo |-> <<>>, u_hi |-> <<>>, level |-> "", text |-> text]

ErectionZone(id, name, cells, xr, yr, els, counts) ==
    [zone_id |-> id, name |-> name, grid_cells |-> cells, x_range |-> xr,
     y_range |-> yr, elements |-> els, element_counts |-> counts]

\* stage_id: f"{zone_id}.{sub_stage}"
StageId(zone_id, sub_stage) == Str(zone_id) \o <<".">> \o Str(sub_stage)

ErectionStage(zone_id, sub_stage, element_type, grid_range, els, order) ==
    [stage_id |-> StageId(zone_id, sub_stage), zone_id |-> zone_id,
     element_type |-> element_type, grid_range |-> grid_range,
     elements |-> els, sequence_order |-> order]

\* d[key] = item, for every item in turn, on a dict kept as a sequence: an
\* existing key keeps its place and takes the last value, a new key is
\* appended where it first occurs
DictPutAll(d, items, SameKey(_, _)) ==
    LET n == Len(items)
        hit(x) == \E j \in 1..n : SameKey(items[j], x)
        last(x) == items[CHOOSE i \in 1..n :
                             /\ SameKey(items[i], x)
                             /\ \A j \in (i + 1)..n : ~SameKey(items[j], x)]
        fresh == {i \in 1..n :
                     /\ \A k \in 1..Len(d) : ~SameKey(d[k], items[i])
                     /\ \A j \in 1..(i - 1) : ~SameKey(items[j], items[i])}
        nth(k) == CHOOSE i \in fresh : Cardinality({j \in fresh : j < i}) = k - 1
    IN  [i \in 1..Len(d) |-> IF hit(d[i]) THEN last(d[i]) ELSE d[i]]
        \o [k \in 1..Cardinality(fresh) |-> last(items[nth(k)])]

SameAxisKey(a, b) == a.direction = b.direction /\ a.tag = b.tag

SameCellKey(a, b) == a.name = b.name

SameElemKey(a, b) == a.global_id = b.global_id

SameLevelKey(a, b) == a.name = b.name

HasElem(els, id) == \E i \in 1..Len(els) : els[i].global_id = id

\* self.elements[id]
ElemAt(els, id) == els[CHOOSE i \in 1..Len(els) : els[i].global_id = id]

(***************************************************************************)
(* analyze, step 1: _extract_levels                                        *)
(***************************************************************************)
ByElevation(l) == l.elevation

ExtractLevels(file, lv) ==
    StableSort(DictPutAll(lv, file.storeys, SameLevelKey), ByElevation, NumLess)

(***************************************************************************)
(* analyze, step 2: _extract_grid_system and _create_grid_cells            *)
(***************************************************************************)
ByPosition(a) == a.position

\* the first axis of each tag, in position order
UniqueByTag(axes) ==
    LET s == StableSort(axes, ByPosition, NumLess)
        first(i) == \A j \in 1..(i - 1) : s[j].tag # s[i].tag
        keep == {i \in 1..Len(s) : first(i)}
        nth(k) == CHOOSE i \in keep : Cardinality({j \in keep : j < i}) = k - 1
    IN  [k \in 1..Cardinality(keep) |-> s[nth(k)]]

CreateGridCells(u_axes, v_axes, cells) ==
    IF Len(u_axes) < 2 \/ Len(v_axes) < 2 THEN cells
    ELSE LET nu == Len(u_axes) - 1
             nv == Len(v_axes) - 1
             cell(i, j) ==
                 GridCell(u_axes[i].tag, v_axes[j].tag,
                          Min({u_axes[i].position, u_axes[i + 1].position}),
                          Max({u_axes[i].position, u_axes[i + 1].position}),
                          Min({v_axes[j].position, v_axes[j + 1].position}),
                          Max({v_axes[j].position, v_axes[j + 1].position}))
             new == [k \in 1..(nu * nv) |->
                        cell(((k - 1) \div nv) + 1, ((k - 1) % nv) + 1)]
         IN  DictPutAll(cells, new, SameCellKey)

ExtractGridSystem(file, axes, cells) ==
    IF ~file.has_grid
    THEN [grid_axes |-> axes, grid_cells |-> cells, grid_detected |-> FALSE]
    ELSE LET u_axes == [i \in 1..Len(file.u_axes) |->
                           GridAxis(file.u_axes[i].tag, "U", file.u_axes[i].position)]
             v_axes == [i \in 1..Len(file.v_axes) |->
                           GridAxis(file.v_axes[i].tag, "V", file.v_axes[i].position)]
             unique_u == UniqueByTag(u_axes)
             unique_v == UniqueByTag(v_axes)
         IN  [grid_axes |-> DictPutAll(DictPutAll(axes, unique_u, SameAxisKey),
                                       unique_v, SameAxisKey),
              grid_cells |-> CreateGridCells(unique_u, unique_v, cells),
              grid_detected |-> TRUE]

(***************************************************************************)
(* analyze, step 3: _extract_structural_elements and _get_element_level    *)
(***************************************************************************)
\* ifc.by_type(t) returns the instances of t and of its subtypes
SubtypesOf(t) == IF t = "IfcWall" THEN {"IfcWall", "IfcWallStandardCase"} ELSE {t}

GetElementLevel(fe, lv) ==
    IF fe.storey # "" THEN fe.storey
    ELSE IF lv = <<>> THEN "Unknown"
    ELSE LET diff(i) == Abs(fe.z - lv[i].elevation)
         IN  lv[CHOOSE i \in 1..Len(lv) :
                    /\ \A j \in 1..Len(lv) : diff(i) <= diff(j)
                    /\ \A j \in 1..(i - 1) : diff(j) > diff(i)].name

ExtractStructuralElements(file, lv, els) ==
    LET byType(t) ==
            LET inst == SelectSeq(file.elems, LAMBDA fe : fe.ifc_type \in SubtypesOf(t))
            IN  [i \in 1..Len(inst) |->
                    [StructuralElement(inst[i], GetElementLevel(inst[i], lv))
                        EXCEPT !.ifc_type = t]]
        all == Concat([k \in 1..Len(structural_ifc_types) |->
                          byType(structural_ifc_types[k])])
    IN  DictPutAll(els, all, SameElemKey)

(***************************************************************************)
(* analyze, step 4: _map_elements_to_grid, _create_virtual_grid,           *)
(* _find_grid_cell                                                         *)
(***************************************************************************)
\* the tag of the label_idx-th virtual U axis (label_idx counts from 0)
VirtualUTag(label_idx) ==
    IF label_idx >= Len(labels)
    THEN <<labels[(label_idx \div Len(labels)) - 1 + 1],
           labels[(label_idx % Len(labels)) + 1]>>
    ELSE <<labels[(label_idx % Len(labels)) + 1]>>

\* number of passes of a loop `while pos <= hi`, pos starting at lo
VirtualAxisCountWithin(lo, hi) == ((hi - lo) \div grid_spacing) + 1

\* number of passes of `while pos <= hi + grid_spacing`, pos starting at lo
VirtualAxisCount(lo, hi) == ((hi - lo + grid_spacing) \div grid_spacing) + 1

CreateVirtualGrid(els, axes, cells, detected) ==
    IF els = <<>>
    THEN [grid_axes |-> axes, grid_cells |-> cells, grid_detected |-> detected]
    ELSE LET xs == {els[i].x : i \in 1..Len(els)}
             ys == {els[i].y : i \in 1..Len(els)}
             u_axes == [k \in 1..VirtualAxisCount(Min(xs), Max(xs)) |->
                           GridAxis(VirtualUTag(k - 1), "U",
                                    Min(xs) + (k - 1) * grid_spacing)]
             v_axes == [k \in 1..VirtualAxisCount(Min(ys), Max(ys)) |->
                           GridAxis(ZFill2(k), "V",
                                    Min(ys) + (k - 1) * grid_spacing)]
         IN  [grid_axes |-> DictPutAll(DictPutAll(axes, u_axes, SameAxisKey),
                                       v_axes, SameAxisKey),
              grid_cells |-> CreateGridCells(u_axes, v_axes, cells),
              grid_detected |-> FALSE]

\* the squared distance to a cell centre is compared on doubled coordinates,
\* in units of 20 mm
FindGridCell(x, y, cells) ==
    LET inside(c) == c.x_min <= x /\ x <= c.x_max /\ c.y_min <= y /\ y <= c.y_max
        dx(c) == (2 * x - (c.x_min + c.x_max)) \div 20
        dy(c) == (2 * y - (c.y_min + c.y_max)) \div 20
        dist2(c) == dx(c) * dx(c) + dy(c) * dy(c)
        n == Len(cells)
    IN  IF \E i \in 1..n : inside(cells[i])
        THEN cells[CHOOSE i \in 1..n :
                       inside(cells[i]) /\ \A j \in 1..(i - 1) : ~inside(cells[j])].name
        ELSE IF n = 0 THEN NoCell
        ELSE cells[CHOOSE i \in 1..n :
                       /\ \A j \in 1..n : dist2(cells[i]) <= dist2(cells[j])
                       /\ \A j \in 1..(i - 1) : dist2(cells[j]) > dist2(cells[i])].name

MapElementsToGrid(els, axes, cells, detected) ==
    LET g == IF cells = <<>> THEN CreateVirtualGrid(els, axes, cells, detected)
             ELSE [grid_axes |-> axes, grid_cells |-> cells, grid_detected |-> detected]
    IN  [grid_axes |-> g.grid_axes, grid_cells |-> g.grid_cells,
         grid_detected |-> g.grid_detected,
         elements |-> [i \in 1..Len(els) |->
                          [els[i] EXCEPT !.grid_cell =
                              FindGridCell(els[i].x, els[i].y, g.grid_cells)]]]

(***************************************************************************)
(* analyze, step 5: _detect_zones                                          *)
(***************************************************************************)
\* max(1, int(math.ceil(range / zone_size))), capped
NumZones(range) ==
    Min({max_zones_per_axis, Max({1, (range + zone_size - 1) \div zone_size})})

\* a membership test that also takes the upper edges
InRangeClosed(e, xr, yr) ==
    xr[1] <= e.x /\ e.x <= xr[2] /\ yr[1] <= e.y /\ e.y <= yr[2]

\* the half-open membership test of a tile or zone range
InRange(e, xr, yr) == xr[1] <= e.x /\ e.x < xr[2] /\ yr[1] <= e.y /\ e.y < yr[2]

\* global ids of the elements inside the range, in registry order
ElementsInRange(els, xr, yr) ==
    LET inside == SelectSeq(els, LAMBDA e : InRange(e, xr, yr))
    IN  [i \in 1..Len(inside) |-> inside[i].global_id]

\* element_counts of a list of element ids
ElementCounts(els, ids) ==
    LET known == SelectSeq(ids, LAMBDA id : HasElem(els, id))
    IN  CountsOf([i \in 1..Len(known) |-> ElemAt(els, known[i]).ifc_type])

\* names of the cells whose centre lies in the tile
CellsInRange(cells, xr, yr) ==
    LET inside == SelectSeq(cells, LAMBDA c :
                      /\ 2 * xr[1] <= c.x_min + c.x_max /\ c.x_min + c.x_max < 2 * xr[2]
                      /\ 2 * yr[1] <= c.y_min + c.y_max /\ c.y_min + c.y_max < 2 * yr[2])
    IN  [i \in 1..Len(inside) |-> inside[i].name]

\* key of sorted(v_tags, key=lambda x: int(x) if x.isdigit() else 0)
NumKey(tag) == IF IsDigit(tag) THEN IntOf(tag) ELSE 0

\* f"Grid {v_sorted[0]}-{v_sorted[-1]} / {u_sorted[0]}-{u_sorted[-1]}", or
\* f"Zone {zone_id}".  u_tags and v_tags are Python sets; for the tags that
\* occur here the sort keys are pairwise different, so that the iteration
\* order of the sets does not show in the result.
TileName(zone_id, zone_cells) ==
    LET parts == {SplitDash(zone_cells[i]) : i \in 1..Len(zone_cells)}
        two == {p \in parts : Len(p) = 2}
        u_tags == {p[1] : p \in two}
        v_tags == {p[2] : p \in two}
        u_first == CHOOSE t \in u_tags : \A o \in u_tags : ~StrLess(o, t)
        u_last == CHOOSE t \in u_tags : \A o \in u_tags : ~StrLess(t, o)
        v_first == CHOOSE t \in v_tags : \A o \in v_tags : NumKey(t) <= NumKey(o)
        v_last == CHOOSE t \in v_tags : \A o \in v_tags : NumKey(t) >= NumKey(o)
    IN  IF zone_cells # <<>> /\ u_tags # {} /\ v_tags # {}
        THEN GridName(v_first, v_last, u_first, u_last, "")
        ELSE ZoneName(zone_id)

DetectZones(els, cells, zs) ==
    IF els = <<>> THEN zs
    ELSE LET xs == {els[i].x : i \in 1..Len(els)}
             ys == {els[i].y : i \in 1..Len(els)}
             x_min == Min(xs)
             y_min == Min(ys)
             x_range == Max(xs) - x_min
             y_range == Max(ys) - y_min
             num_x_zones == NumZones(x_range)
             num_y_zones == NumZones(y_range)
             zone_width == x_range \div num_x_zones
             zone_height == y_range \div num_y_zones
             \* tile t = j * num_x_zones + i, rows (j) outermost
             xr(t) == <<x_min + (t % num_x_zones) * zone_width,
                        x_min + (t % num_x_zones) * zone_width + zone_width>>
             yr(t) == <<y_min + (t \div num_x_zones) * zone_height,
                        y_min + (t \div num_x_zones) * zone_height + zone_height>>
             tiles == 0..(num_x_zones * num_y_zones - 1)
             occupied == {t \in tiles : ElementsInRange(els, xr(t), yr(t)) # <<>>}
             \* zone ids are dense over the non-empty tiles, from 1
             idOf(t) == Cardinality({o \in occupied : o < t}) + 1
             zoneOf(t) ==
                 ErectionZone(idOf(t),
                              TileName(idOf(t), CellsInRange(cells, xr(t), yr(t))),
                              CellsInRange(cells, xr(t), yr(t)),
                              xr(t), yr(t),
                              ElementsInRange(els, xr(t), yr(t)),
                              ElementCounts(els, ElementsInRange(els, xr(t), yr(t))))
             new == 1..Cardinality(occupied)
         IN  [id \in (DOMAIN zs) \cup new |->
                 IF id \in new
                 THEN zoneOf(CHOOSE t \in occupied : idOf(t) = id)
                 ELSE zs[id]]

(***************************************************************************)
(* The float arithmetic of _detect_zones                                   *)
(* A double is kept exactly as <<whole, hi, lo>>: whole + (hi * 2^20 + lo) *)
(* / 2^40 with 0 <= hi, lo < 2^20.  The values of the tiling are whole     *)
(* numbers or lie in 2^13 .. 2^18, where a double has 35 to 39 fraction     *)
(* bits; every operation is the exact one followed by the rounding to 53   *)
(* significant bits, ties to even.                                         *)
(***************************************************************************)
RECURSIVE Pow2(_)
Pow2(n) == IF n = 0 THEN 1 ELSE 2 * Pow2(n - 1)

Limb == Pow2(20)

\* the exponent e with 2^e <= n < 2^(e+1), for n >= 1
RECURSIVE Exponent(_)
Exponent(n) == IF n < 2 THEN 0 ELSE 1 + Exponent(n \div 2)

\* float(n) of a whole number
FloatOf(n) == <<n, 0, 0>>

FloatLess(a, b) ==
    \/ a[1] < b[1]
    \/ a[1] = b[1] /\ a[2] < b[2]
    \/ a[1] = b[1] /\ a[2] = b[2] /\ a[3] < b[3]

FloatLessEq(a, b) == a = b \/ FloatLess(a, b)

\* v with its carries taken up: limbs below 2^20
Carried(v) ==
    <<v[1] + (v[2] + v[3] \div Limb) \div Limb,
      (v[2] + v[3] \div Limb) % Limb,
      v[3] % Limb>>

\* the double nearest to the exact value v (+ a rest below 2^-40 when sticky),
\* ties to even: 52 - e fraction bits are kept, e the exponent of v
RoundToDouble(v, sticky) ==
    IF v[1] < Pow2(13) THEN v
    ELSE LET dropped == Exponent(v[1]) - 12
             unit == Pow2(dropped)
             rest == v[3] % unit
             kept == v[3] - rest
             up == \/ 2 * rest > unit
                   \/ 2 * rest = unit /\ (sticky \/ (kept \div unit) % 2 = 1)
         IN  Carried(<<v[1], v[2], IF up THEN kept + unit ELSE kept>>)

\* a / n for whole numbers a >= 0 and n >= 1
FloatDiv(a, n) ==
    LET hi == ((a % n) * Limb) \div n
        r1 == ((a % n) * Limb) % n
        lo == (r1 * Limb) \div n
        r2 == (r1 * Limb) % n
    IN  RoundToDouble(<<a \div n, hi, lo>>, r2 # 0)

\* i * v for a whole number i >= 0
FloatMul(i, v) == RoundToDouble(Carried(<<i * v[1], i * v[2], i * v[3]>>), FALSE)

FloatAdd(a, b) == RoundToDouble(Carried(<<a[1] + b[1], a[2] + b[2], a[3] + b[3]>>), FALSE)

\* (zone_x_min, zone_x_max) of the tiles 0 .. num - 1 along one axis, as
\* _detect_zones computes them from the smallest coordinate and the range
TileEdges(lo, range, num) ==
    LET zone_width == FloatDiv(range, num)
    IN  [k \in 1..num |->
            LET zone_min == FloatAdd(FloatOf(lo), FloatMul(k - 1, zone_width))
            IN  <<zone_min, FloatAdd(zone_min, zone_width)>>]

\* a test that also takes the upper edge
InEdgesClosed(v, edges) ==
    FloatLessEq(edges[1], FloatOf(v)) /\ FloatLessEq(FloatOf(v), edges[2])

\* zone_min <= v < zone_max
InEdges(v, edges) == FloatLessEq(edges[1], FloatOf(v)) /\ FloatLess(FloatOf(v), edges[2])

\* the tiles of _detect_zones that hold an element, rows outermost: the
\* ranges and the element ids of each
DetectZoneTiles(els) ==
    IF els = <<>> THEN <<>>
    ELSE LET xs == {els[i].x : i \in 1..Len(els)}
             ys == {els[i].y : i \in 1..Len(els)}
             x_range == Max(xs) - Min(xs)
             y_range == Max(ys) - Min(ys)
             num_x_zones == NumZones(x_range)
             num_y_zones == NumZones(y_range)
             x_edges == List(TileEdges(Min(xs), x_range, num_x_zones))
             y_edges == List(TileEdges(Min(ys), y_range, num_y_zones))
             tile(t) ==
                 [x_range |-> x_edges[(t % num_x_zones) + 1],
                  y_range |-> y_edges[(t \div num_x_zones) + 1],
                  elements |->
                      LET inside == SelectSeq(els, LAMBDA e :
                                        /\ InEdges(e.x, x_edges[(t % num_x_zones) + 1])
                                        /\ InEdges(e.y, y_edges[(t \div num_x_zones) + 1]))
                      IN  [i \in 1..Len(inside) |-> inside[i].global_id]]
             all == [t \in 1..(num_x_zones * num_y_zones) |-> tile(t - 1)]
         IN  SelectSeq(all, LAMBDA z : z.elements # <<>>)

(***************************************************************************)
(* analyze, step 6: _generate_stages                                       *)
(***************************************************************************)
\* one pass of the walk over the levels, bottom-up, and over the categories
\* of seq on each level, the categories taken level after level: the
\* non-empty (level, category) combinations with their element ids
CategoryPassByCategory(seq, sorted_levels, level_elements) ==
    LET stage_elements ==
            List([c \in 1..Len(seq) |-> List([l \in 1..Len(sorted_levels) |->
                LET m == SelectSeq(level_elements[l],
                                   LAMBDA e : e.ifc_type \in TypesOf(seq[c]))
                IN  [i \in 1..Len(m) |-> m[i].global_id]])])
    IN  Concat([c \in 1..Len(seq) |->
            Concat([l \in 1..Len(sorted_levels) |->
                IF stage_elements[c][l] = <<>> THEN <<>>
                ELSE <<[level |-> sorted_levels[l].name, element_type |-> seq[c],
                        elements |-> stage_elements[c][l]]>>])])

\* one pass of the walk that keeps the combinations no element matches
CategoryPassKeepingEmpty(seq, sorted_levels, level_elements) ==
    Concat([l \in 1..Len(sorted_levels) |->
        [c \in 1..Len(seq) |->
            LET m == SelectSeq(level_elements[l],
                               LAMBDA e : e.ifc_type \in TypesOf(seq[c]))
            IN  [level |-> sorted_levels[l].name, element_type |-> seq[c],
                 elements |-> [i \in 1..Len(m) |-> m[i].global_id]]]])

\* one pass of the walk: for each level bottom-up, for each category of seq,
\* the non-empty (level, category) combinations with their element ids
CategoryPass(seq, sorted_levels, level_elements) ==
    LET stage_elements ==
            List([l \in 1..Len(sorted_levels) |-> List([c \in 1..Len(seq) |->
                LET m == SelectSeq(level_elements[l],
                                   LAMBDA e : e.ifc_type \in TypesOf(seq[c]))
                IN  [i \in 1..Len(m) |-> m[i].global_id]])])
    IN  Concat([l \in 1..Len(sorted_levels) |->
            Concat([c \in 1..Len(seq) |->
                IF stage_elements[l][c] = <<>> THEN <<>>
                ELSE <<[level |-> sorted_levels[l].name, element_type |-> seq[c],
                        elements |-> stage_elements[l][c]]>>])])

\* the per-level category walk of one zone: primary categories level by
\* level, then secondary categories level by level
LevelCategoryWalk(zone_elements, els, lv) ==
    LET sorted_levels == StableSort(lv, ByElevation, NumLess)
        known == SelectSeq(zone_elements, LAMBDA id : HasElem(els, id))
        elem == List([i \in 1..Len(known) |-> ElemAt(els, known[i])])
        level_elements ==
            List([l \in 1..Len(sorted_levels) |->
                     SelectSeq(elem, LAMBDA e : e.level = sorted_levels[l].name)])
    IN  CategoryPass(PRIMARY_SEQUENCE, sorted_levels, level_elements)
        \o CategoryPass(SECONDARY_SEQUENCE, sorted_levels, level_elements)

\* number of stages of the zone in a stage list
StagesOfZone(st, zone_id) ==
    Cardinality({i \in 1..Len(st) : st[i].zone_id = zone_id})

\* the stages appended for one zone; `first` is stage_counter on entry
ZoneStages(zone, els, lv, st, first) ==
    LET walk == LevelCategoryWalk(zone.elements, els, lv)
        base == StagesOfZone(st, zone.zone_id)
    IN  [k \in 1..Len(walk) |->
            ErectionStage(zone.zone_id, base + k, walk[k].element_type,
                          zone.name, walk[k].elements, first + k - 1)]

RECURSIVE GenerateStagesFrom(_, _, _, _, _, _)
GenerateStagesFrom(ids, zs, els, lv, st, stage_counter) ==
    IF ids = {} THEN st
    ELSE LET id == Min(ids)
             new == ZoneStages(zs[id], els, lv, st, stage_counter)
         IN  GenerateStagesFrom(ids \ {id}, zs, els, lv, st \o new,
                                stage_counter + Len(new))

GenerateStages(zs, els, lv, st) ==
    GenerateStagesFrom(DOMAIN zs, zs, els, lv, st, 1)

(***************************************************************************)
(* Input: the IFC file handed to the service.                              *)
(*   storeys : IfcBuildingStorey records, file order                       *)
(*   has_grid: whether the file holds an IfcGrid                           *)
(*   u_axes, v_axes : the axes of the grids with their resolved position   *)
(*   elems   : the positioned building elements, file order; storey is the *)
(*             name of the containing storey, "" without containment       *)
(***************************************************************************)
FileElem(id, type, x, y, z, storey) ==
    [express_id |-> id, ifc_type |-> type, x |-> x, y |-> y, z |-> z,
     storey |-> storey]

FileAxis(tag, position) == [tag |-> tag, position |-> position]

LevelNames == <<"Ground", "Level 1", "Level 2", "Level 3">>

\* elevation of the k-th storey above the ground, in mm
StoreyElevation(k) == k * 3000

\* n storeys, listed top-down in the file
Storeys(n) ==
    [i \in 1..n |-> [name |-> LevelNames[n + 1 - i],
                     elevation |-> StoreyElevation(n - i)]]

File(storeys, has_grid, u_axes, v_axes, elems) ==
    [storeys |-> storeys, has_grid |-> has_grid, u_axes |-> u_axes,
     v_axes |-> v_axes, elems |-> elems]

\* the members of a catalogue picked by the index set S, in file order
Pick(catalogue, S) ==
    SelectSeq(catalogue, LAMBDA fe : \E i \in S : catalogue[i] = fe)

\* 1. small ungridded buildings: at most MaxElems elements of a catalogue
\*    that spans two tiles in x; levels are resolved from z
Catalogue ==
    << FileElem(1, "IfcColumn",  0,     0,     0,    ""),
       FileElem(2, "IfcWall",    0,     0,     0,    ""),
       FileElem(3, "IfcColumn",  0,     0,     3000, ""),
       FileElem(4, "IfcFooting", 0,     0,     -600, ""),
       FileElem(5, "IfcBeam",    30000, 0,     3000, ""),
       FileElem(6, "IfcColumn",  30000, 0,     0,    ""),
       FileElem(7, "IfcStair",   30000, 6000,  0,    ""),
       FileElem(8, "IfcSlab",    60000, 12000, 3000, ""),
       FileElem(9, "IfcRailing", 0,     12000, 3000, "") >>

SmallFiles ==
    {File(Storeys(2), FALSE, <<>>, <<>>, Pick(Catalogue, S)) :
        S \in {T \in SUBSET (1..Len(Catalogue)) : Cardinality(T) <= MaxElems}}

\* 2. one bay carrying every category on each of nl storeys, and a far corner
TowerTypes == <<"IfcFooting", "IfcColumn", "IfcBeam", "IfcMember", "IfcSlab",
                "IfcWall", "IfcStair", "IfcRailing">>

TowerElems(nl, nt) ==
    [k \in 1..(nl * nt) |->
        FileElem(k, TowerTypes[((k - 1) % nt) + 1], 0, 0,
                 StoreyElevation((k - 1) \div nt),
                 LevelNames[((k - 1) \div nt) + 1])]
    \o <<FileElem(nl * nt + 1, "IfcColumn", 12000, 12000, 0, LevelNames[1])>>

TowerFiles ==
    {File(Storeys(nl), FALSE, <<>>, <<>>, TowerElems(nl, nt)) :
        nl \in 1..MaxLevels, nt \in {Len(PRIMARY_SEQUENCE), Len(TowerTypes)}}

\* 3. the one-column building on a 2 x 2 grid
ScenarioFile ==
    File(Storeys(1), TRUE,
         <<FileAxis(<<"A">>, 0), FileAxis(<<"B">>, 10000)>>,
         <<FileAxis(<<"1">>, 0), FileAxis(<<"2">>, 8000)>>,
         <<FileElem(1, "IfcColumn", 5000, 4000, 0, "Ground")>>)

\* position of the i-th half bay edge, in mm: bays are 12 m wide
HalfBays(i) == i * 6000

\* 4. gridded buildings: axes A, J and 2, 5, 8, ...; one bay between each
\*    pair of numbered axes holding a footing, a column and a beam, and a
\*    column of the upper storey in the last bay; none missing, or one of
\*    the first bay, or the upper column
NumBays == MaxSplits + 1

VTag(i) == Str(3 * i - 1)

BayTypes == <<"IfcFooting", "IfcColumn", "IfcBeam">>

GridCatalogue ==
    [k \in 1..(3 * NumBays) |->
        FileElem(k, BayTypes[((k - 1) % 3) + 1],
                 HalfBays(((k - 1) % 3) + 1),
                 HalfBays(2 * ((k - 1) \div 3) + 1), 0, "")]
    \o <<FileElem(3 * NumBays + 1, "IfcColumn", HalfBays(2),
                  HalfBays(2 * NumBays - 1), StoreyElevation(1), "")>>

GridFiles ==
    {File(Storeys(2), TRUE,
          <<FileAxis(<<"A">>, 0), FileAxis(<<"J">>, HalfBays(4))>>,
          [i \in 1..(NumBays + 1) |-> FileAxis(VTag(i), HalfBays(2 * (i - 1)))],
          Pick(GridCatalogue, (1..Len(GridCatalogue)) \ S)) :
        S \in {{}} \cup {{k} : k \in (1..Len(BayTypes)) \cup {Len(GridCatalogue)}}}

\* 5. the whole catalogue of 1.
WholeFile == File(Storeys(2), FALSE, <<>>, <<>>, Catalogue)

\* 6. a two-storey bay of ten stages in the first of two tiles, one column
\*    in the second tile and one on the far corner
TwoTileTower ==
    File(Storeys(2), FALSE, <<>>, <<>>,
         TowerElems(2, Len(PRIMARY_SEQUENCE))
         \o <<FileElem(12, "IfcColumn", 30000, 0, 0, LevelNames[1]),
              FileElem(13, "IfcColumn", 60000, 12000, 0, LevelNames[1])>>)

\* 7. two columns under grids of other shapes
TwoColumns ==
    <<FileElem(1, "IfcColumn", 1000, 1000, 0, LevelNames[1]),
      FileElem(2, "IfcColumn", 9000, 9000, 0, LevelNames[1])>>

\*    3 x 3 axes, two of them given twice, by two grids of the file
RepeatedAxesFile ==
    File(Storeys(1), TRUE,
         <<FileAxis(<<"A">>, 0), FileAxis(<<"B">>, 6000), FileAxis(<<"C">>, 12000),
           FileAxis(<<"A">>, 15000)>>,
         <<FileAxis(<<"1">>, 0), FileAxis(<<"2">>, 4000), FileAxis(<<"3">>, 8000),
           FileAxis(<<"2">>, 100)>>,
         TwoColumns)

\*    3 x 3 axes with intermediate axes A-1 and 1-1
DashedTagsFile ==
    File(Storeys(1), TRUE,
         <<FileAxis(<<"A">>, 0), FileAxis(<<"A", "-", "1">>, 3000),
           FileAxis(<<"B">>, 6000)>>,
         <<FileAxis(<<"1">>, 0), FileAxis(<<"1", "-", "1">>, 4000),
           FileAxis(<<"2">>, 8000)>>,
         TwoColumns)

\*    axes A and B both at 0
CoincidentAxesFile ==
    File(Storeys(1), TRUE,
         <<FileAxis(<<"A">>, 0), FileAxis(<<"B">>, 0), FileAxis(<<"C">>, 6000)>>,
         <<FileAxis(<<"1">>, 0), FileAxis(<<"2">>, 4000)>>,
         TwoColumns)

\*    one axis in the U family
OneAxisFile ==
    File(Storeys(1), TRUE,
         <<FileAxis(<<"A">>, 0)>>,
         <<FileAxis(<<"1">>, 0), FileAxis(<<"2">>, 4000)>>,
         TwoColumns)

OtherGridFiles ==
    {RepeatedAxesFile, DashedTagsFile, CoincidentAxesFile, OneAxisFile}

\* 8. an ungridded building spread over (0,0)-(40000,40000)
SpreadFile ==
    File(Storeys(1), FALSE, <<>>, <<>>,
         <<FileElem(1, "IfcColumn", 0, 0, 0, LevelNames[1]),
           FileElem(2, "IfcBeam", 20000, 25000, 0, LevelNames[1]),
           FileElem(3, "IfcColumn", 40000, 40000, 0, LevelNames[1])>>)

\* 9. a building without IfcBuildingStorey: three members of the catalogue
NoStoreysFile == File(<<>>, FALSE, <<>>, <<>>, Pick(Catalogue, {1, 5, 8}))

Files ==
    SmallFiles \cup TowerFiles
    \cup {ScenarioFile, WholeFile, TwoTileTower, SpreadFile, NoStoreysFile}
    \cup GridFiles \cup OtherGridFiles

\* 10. the grid of 4. with a column on the axis between the first two bays
OnAxisFile ==
    File(Storeys(2), TRUE,
         <<FileAxis(<<"A">>, 0), FileAxis(<<"J">>, HalfBays(4))>>,
         [i \in 1..(NumBays + 1) |-> FileAxis(VTag(i), HalfBays(2 * (i - 1)))],
         <<FileElem(1, "IfcColumn", HalfBays(2), HalfBays(2), 0, ""),
           FileElem(2, "IfcFooting", HalfBays(1), HalfBays(1), 0, ""),
           FileElem(3, "IfcBeam", HalfBays(3), HalfBays(3), 0, "")>>)

CoreFiles == {WholeFile, ScenarioFile, OnAxisFile} \cup GridFiles

(***************************************************************************)
(* The service                                                             *)
(***************************************************************************)
NoCall == [op |-> "none"]

InitWith(files) ==
    /\ ifc \in files
    /\ levels = <<>>
    /\ grid_axes = <<>>
    /\ grid_cells = <<>>
    /\ elements = <<>>
    /\ zones = <<>>
    /\ stages = <<>>
    /\ analyzed = FALSE
    /\ grid_detected = FALSE
    /\ phase = "new"
    /\ n_analyze = 0
    /\ n_edits = 0
    /\ n_requests = 0
    /\ last_call = NoCall
    /\ reviews = <<>>
    /\ n_review_calls = 0

\* r with the fields that g carries taken from g
With(r, g) == [f \in DOMAIN r |-> IF f \in DOMAIN g THEN g[f] ELSE r[f]]

\* the steps of analyze(), each on the registries r the step before left
LevelsStep(file, r) == [r EXCEPT !.levels = ExtractLevels(file, r.levels)]

GridStep(file, r) == With(r, ExtractGridSystem(file, r.grid_axes, r.grid_cells))

ElementsStep(file, r) ==
    [r EXCEPT !.elements = ExtractStructuralElements(file, r.levels, r.elements)]

MapStep(r) ==
    With(r, MapElementsToGrid(r.elements, r.grid_axes, r.grid_cells, r.grid_detected))

ZonesStep(r) == [r EXCEPT !.zones = DetectZones(r.elements, r.grid_cells, r.zones)]

StagesStep(r) ==
    [r EXCEPT !.stages = GenerateStages(r.zones, r.elements, r.levels, r.stages)]

\* the registries after analyze() on the registries r
AnalyzeResult(file, r) ==
    StagesStep(ZonesStep(MapStep(ElementsStep(file, GridStep(file, LevelsStep(file, r))))))

Registries ==
    [levels |-> levels, grid_axes |-> grid_axes, grid_cells |-> grid_cells,
     elements |-> elements, zones |-> zones, stages |-> stages,
     grid_detected |-> grid_detected]

Fresh ==
    [levels |-> <<>>, grid_axes |-> <<>>, grid_cells |-> <<>>,
     elements |-> <<>>, zones |-> <<>>, stages |-> <<>>,
     grid_detected |-> FALSE]

Analyze ==
    /\ n_analyze < MaxAnalyze
    /\ \E r \in {AnalyzeResult(ifc, Registries)} :
           /\ levels' = r.levels
           /\ grid_axes' = r.grid_axes
           /\ grid_cells' = r.grid_cells
           /\ elements' = r.elements
           /\ zones' = r.zones
           /\ stages' = r.stages
           /\ grid_detected' = r.grid_detected
    /\ analyzed' = TRUE
    /\ n_analyze' = n_analyze + 1
    /\ phase' = IF phase = "new" THEN "auto" ELSE "reanalyzed"
    /\ n_edits' = 0
    /\ last_call' = [op |-> "analyze"]
    /\ UNCHANGED <<ifc, n_requests>>
    /\ UNCHANGED review_vars

\* get_methodology_service: the routes build the service and run analyze()
\* once, when the file is first asked for
Load == ~analyzed /\ Analyze

(***************************************************************************)
(* update_zone and _regenerate_zone_stages                                 *)
(***************************************************************************)
\* key of self.stages.sort(key=lambda s: (s.zone_id, s.stage_id))
\* key=lambda s: (s.zone_id, s.stage_id), and the order of such pairs
ByZoneAndStageId(s) == <<s.zone_id, s.stage_id>>

IdPairLess(a, b) == a[1] < b[1] \/ (a[1] = b[1] /\ StrLess(a[2], b[2]))

\* the stages left with the sequence_order they carry
RenumberKeep(st) == st

\* stage.sequence_order = i + 1 for i, stage in enumerate(stages)
Renumber(st) == [i \in 1..Len(st) |-> [st[i] EXCEPT !.sequence_order = i]]

\* zones and stages after _regenerate_zone_stages(zone_id), the zone existing
RegenerateZoneStages(zone_id, zs, els, lv, st) ==
    LET kept == SelectSeq(st, LAMBDA s : s.zone_id # zone_id)
        zone == [zs[zone_id] EXCEPT
                    !.element_counts = ElementCounts(els, zs[zone_id].elements)]
        walk == LevelCategoryWalk(zone.elements, els, lv)
        new == [k \in 1..Len(walk) |->
                   ErectionStage(zone_id, k, walk[k].element_type, zone.name,
                                 walk[k].elements, 0)]
    IN  [zones |-> [zs EXCEPT ![zone_id] = zone],
         stages |-> Renumber(StableSort(kept \o new, ByZoneAndStageId, IdPairLess))]

NoName == ""

NoRange == <<>>

\* zones and stages after update_zone(zone_id, name, x_range, y_range), the
\* zone existing
UpdateZoneResult(zone_id, name, x_range, y_range, zs, els, lv, st) ==
    LET z0 == zs[zone_id]
        z1 == [z0 EXCEPT !.name = IF name # NoName THEN UserName(name) ELSE @,
                         !.x_range = IF x_range # NoRange THEN x_range ELSE @,
                         !.y_range = IF y_range # NoRange THEN y_range ELSE @]
        z2 == IF x_range # NoRange \/ y_range # NoRange
              THEN [z1 EXCEPT
                       !.elements = ElementsInRange(els, z1.x_range, z1.y_range),
                       !.element_counts =
                           ElementCounts(els, ElementsInRange(els, z1.x_range, z1.y_range))]
              ELSE z1
    IN  RegenerateZoneStages(zone_id, [zs EXCEPT ![zone_id] = z2], els, lv, st)

(***************************************************************************)
(* get_express_ids_by_grid_area and its two strategies                     *)
(***************************************************************************)
NoType == ""

\* the element_type filter of the queries
TypeMatches(e, element_type) ==
    element_type = NoType \/ e.ifc_type \in TypesOf(element_type)

ExpressIds(es) == [i \in 1..Len(es) |-> es[i].express_id]

\* key of the U-axis sorts: ord(tag[0].upper()) if tag else 0; the tags that
\* occur are digits and upper-case letters, which upper() leaves as they are
FirstCharKey(tag) == IF tag = <<>> THEN 0 ELSE Ord(tag[1])

ByNumKeyThenPosition(a) == <<NumKey(a.tag), a.position>>

ByFirstCharThenPosition(a) == <<FirstCharKey(a.tag), a.position>>

HasTag(tags, t) == \E i \in 1..Len(tags) : tags[i] = t

\* tags.index(t), counted from 0
IndexOf(tags, t) ==
    (CHOOSE i \in 1..Len(tags) : tags[i] = t /\ \A j \in 1..(i - 1) : tags[j] # t) - 1

\* _get_express_ids_by_proportional_grid.  The bounds
\*   x_start = x_min + (i / n) * x_range - x_range / n / 2
\*   x_end   = x_min + ((j + 1) / n) * x_range + x_range / n / 2
\* are compared with elem.x after multiplying through by 2 * n.
ByProportionalGrid(v_start, v_end, u_start, u_end, v_axes, u_axes, element_type, els) ==
    IF els = <<>> THEN <<>>
    ELSE LET xs == {els[i].x : i \in 1..Len(els)}
             ys == {els[i].y : i \in 1..Len(els)}
             x_min == Min(xs)
             y_min == Min(ys)
             x_range == IF Max(xs) > x_min THEN Max(xs) - x_min ELSE 1
             y_range == IF Max(ys) > y_min THEN Max(ys) - y_min ELSE 1
             u_tags == StableSort([i \in 1..Len(u_axes) |-> u_axes[i].tag], FirstCharKey, NumLess)
             v_tags == StableSort([i \in 1..Len(v_axes) |-> v_axes[i].tag], NumKey, NumLess)
             nu == Len(u_tags)
             nv == Len(v_tags)
             us == IF HasTag(u_tags, u_start) THEN IndexOf(u_tags, u_start) ELSE 0
             ue == IF HasTag(u_tags, u_end) THEN IndexOf(u_tags, u_end) ELSE nu - 1
             vs == IF HasTag(v_tags, v_start) THEN IndexOf(v_tags, v_start) ELSE 0
             ve == IF HasTag(v_tags, v_end) THEN IndexOf(v_tags, v_end) ELSE nv - 1
             u_lo == Min({us, ue})
             u_hi == Max({us, ue})
             v_lo == Min({vs, ve})
             v_hi == Max({vs, ve})
             inside(e) ==
                 /\ 2 * nu * x_min + 2 * u_lo * x_range - x_range <= 2 * nu * e.x
                 /\ 2 * nu * e.x <= 2 * nu * x_min + 2 * (u_hi + 1) * x_range + x_range
                 /\ 2 * nv * y_min + 2 * v_lo * y_range - y_range <= 2 * nv * e.y
                 /\ 2 * nv * e.y <= 2 * nv * y_min + 2 * (v_hi + 1) * y_range + y_range
         IN  IF u_tags = <<>> \/ v_tags = <<>>
             THEN ExpressIds(SelectSeq(els, LAMBDA e : TypeMatches(e, element_type)))
             ELSE ExpressIds(SelectSeq(els, LAMBDA e :
                                  inside(e) /\ TypeMatches(e, element_type)))

\* the position filter applied whatever the spread of the resolved positions
ByAxisPositionsAnySpread(v_start, v_end, u_start, u_end, v_axes, u_axes, element_type, els) ==
    LET u_hits == SelectSeq(u_axes, LAMBDA a : a.tag \in {u_start, u_end})
        v_hits == SelectSeq(v_axes, LAMBDA a : a.tag \in {v_start, v_end})
        u_positions == {u_hits[i].position : i \in 1..Len(u_hits)}
        v_positions == {v_hits[i].position : i \in 1..Len(v_hits)}
    IN  IF Len(u_hits) < 2 \/ Len(v_hits) < 2
        THEN ByProportionalGrid(v_start, v_end, u_start, u_end, v_axes, u_axes,
                                element_type, els)
        ELSE ExpressIds(SelectSeq(els, LAMBDA e :
                 /\ Min(u_positions) - tolerance <= e.x
                 /\ e.x <= Max(u_positions) + tolerance
                 /\ Min(v_positions) - tolerance <= e.y
                 /\ e.y <= Max(v_positions) + tolerance
                 /\ TypeMatches(e, element_type)))

\* _get_express_ids_by_axis_positions
ByAxisPositions(v_start, v_end, u_start, u_end, v_axes, u_axes, element_type, els) ==
    LET u_hits == SelectSeq(u_axes, LAMBDA a : a.tag \in {u_start, u_end})
        v_hits == SelectSeq(v_axes, LAMBDA a : a.tag \in {v_start, v_end})
        u_positions == {u_hits[i].position : i \in 1..Len(u_hits)}
        v_positions == {v_hits[i].position : i \in 1..Len(v_hits)}
        x_min == Min(u_positions)
        x_max == Max(u_positions)
        y_min == Min(v_positions)
        y_max == Max(v_positions)
    IN  IF Len(u_hits) < 2 \/ Len(v_hits) < 2
        THEN ByProportionalGrid(v_start, v_end, u_start, u_end, v_axes, u_axes,
                                element_type, els)
        ELSE IF Abs(x_max - x_min) < min_spread \/ Abs(y_max - y_min) < min_spread
        THEN ByProportionalGrid(v_start, v_end, u_start, u_end, v_axes, u_axes,
                                element_type, els)
        ELSE ExpressIds(SelectSeq(els, LAMBDA e :
                 /\ x_min - tolerance <= e.x /\ e.x <= x_max + tolerance
                 /\ y_min - tolerance <= e.y /\ e.y <= y_max + tolerance
                 /\ TypeMatches(e, element_type)))

\* the query answered by the proportional strategy whatever the axes
GetExpressIdsProportionalOnly(v_start, v_end, u_start, u_end, element_type, axes, els) ==
    ByProportionalGrid(v_start, v_end, u_start, u_end,
                       StableSort(SelectSeq(axes, LAMBDA a : a.direction = "V"),
                                  ByNumKeyThenPosition, PairLess),
                       StableSort(SelectSeq(axes, LAMBDA a : a.direction = "U"),
                                  ByFirstCharThenPosition, PairLess),
                       element_type, els)

GetExpressIdsByGridArea(v_start, v_end, u_start, u_end, element_type, axes, els) ==
    LET v_axes == StableSort(SelectSeq(axes, LAMBDA a : a.direction = "V"),
                             ByNumKeyThenPosition, PairLess)
        u_axes == StableSort(SelectSeq(axes, LAMBDA a : a.direction = "U"),
                             ByFirstCharThenPosition, PairLess)
        v_pos_set == {v_axes[i].position : i \in 1..Len(v_axes)}
        u_pos_set == {u_axes[i].position : i \in 1..Len(u_axes)}
    IN  IF Cardinality(v_pos_set) > 1 /\ Cardinality(u_pos_set) > 1
        THEN ByAxisPositions(v_start, v_end, u_start, u_end, v_axes, u_axes,
                             element_type, els)
        ELSE ByProportionalGrid(v_start, v_end, u_start, u_end, v_axes, u_axes,
                                element_type, els)

(***************************************************************************)
(* The per-zone and per-stage queries                                      *)
(***************************************************************************)
\* [self.elements[eid] for eid in ids if eid in self.elements]
KnownElements(ids, els) ==
    LET known == SelectSeq(ids, LAMBDA id : HasElem(els, id))
    IN  [i \in 1..Len(known) |-> ElemAt(els, known[i])]

GetElementsByZone(zone_id, zs, els) ==
    IF zone_id \notin DOMAIN zs THEN <<>>
    ELSE KnownElements(zs[zone_id].elements, els)

\* the first stage of the list that carries the stage_id answers
GetElementsByStage(stage_id, st, els) ==
    LET hits == SelectSeq(st, LAMBDA x : x.stage_id = stage_id)
    IN  IF hits = <<>> THEN <<>> ELSE KnownElements(hits[1].elements, els)

GetExpressIdsByZone(zone_id, zs, els) ==
    ExpressIds(GetElementsByZone(zone_id, zs, els))

GetExpressIdsByStage(stage_id, st, els) ==
    ExpressIds(GetElementsByStage(stage_id, st, els))

(***************************************************************************)
(* generate_from_user_sequences                                            *)
(***************************************************************************)
\* a sequence declaration of the request
SeqDecl(sequence_number, v_start, v_end, u_start, u_end, splits) ==
    [sequence_number |-> sequence_number,
     grid_selection |-> [v_start |-> v_start, v_end |-> v_end,
                         u_start |-> u_start, u_end |-> u_end],
     splits |-> splits]

\* the whole range of a declaration, its splits left out
VRangesWhole(seq) ==
    <<<<seq.grid_selection.v_start, seq.grid_selection.v_end>>>>

\* the (v_start, v_end) pairs of the sub-ranges of a declaration
VRanges(seq) ==
    LET all_v_points == <<seq.grid_selection.v_start>>
                        \o StableSort(seq.splits, NumKey, NumLess)
                        \o <<seq.grid_selection.v_end>>
    IN  [i \in 1..(Len(all_v_points) - 1) |-> <<all_v_points[i], all_v_points[i + 1]>>]

\* the distinct members of s, each where it first occurs
Distinct(s) ==
    LET keep == {i \in 1..Len(s) : \A j \in 1..(i - 1) : s[j] # s[i]}
        nth(k) == CHOOSE i \in keep : Cardinality({j \in keep : j < i}) = k - 1
    IN  [k \in 1..Cardinality(keep) |-> s[nth(k)]]

\* the stages of one level of a sub-range, before numbering: foundations
\* (if enabled), columns, beams + bracing, each when it has elements
LevelStages(level_elems, label, include_footings) ==
    LET ids(cat) ==
            LET m == SelectSeq(level_elems, LAMBDA e : e.ifc_type \in TypesOf(cat))
            IN  [i \in 1..Len(m) |-> Str(m[i].express_id)]
        stage(cat, members) ==
            IF members = <<>> THEN <<>>
            ELSE <<[element_type |-> cat, grid_range |-> label, elements |-> members]>>
    IN  (IF include_footings THEN stage("footings", ids("footings")) ELSE <<>>)
        \o stage("columns", ids("columns"))
        \o stage("beams", ids("beams") \o ids("bracing"))

\* the levels of the elements of a sub-range, bottom-up by the lowest element
SortedLevels(area_elements) ==
    LET min_z(lvl) == Min({area_elements[i].z :
                              i \in {k \in 1..Len(area_elements) :
                                        area_elements[k].level = lvl}})
    IN  StableSort(Distinct([i \in 1..Len(area_elements) |-> area_elements[i].level]),
                   min_z, NumLess)

\* the stages of a sub-range whose elements are area_elements, level by level
AreaLevelStages(area_elements, sorted_levels, v_start, v_end, grid, include_footings) ==
    Concat([l \in 1..Len(sorted_levels) |->
        LevelStages(SelectSeq(area_elements, LAMBDA e : e.level = sorted_levels[l]),
                    GridName(v_start, v_end, grid.u_start, grid.u_end,
                             IF Len(sorted_levels) > 1 THEN sorted_levels[l] ELSE ""),
                    include_footings)])

\* the registered elements with the express ids of the area query
AreaElementsOf(all_area_ids, els) ==
    SelectSeq(els, LAMBDA e : \E i \in 1..Len(all_area_ids) :
                                  all_area_ids[i] = e.express_id)

AreaStagesOf(area_elements, v_start, v_end, grid, include_footings) ==
    AreaLevelStages(area_elements, SortedLevels(area_elements), v_start, v_end,
                    grid, include_footings)

\* the stages of one sub-range, before numbering
AreaStages(v_start, v_end, grid, include_footings, axes, els) ==
    AreaStagesOf(AreaElementsOf(GetExpressIdsByGridArea(v_start, v_end, grid.u_start,
                                                        grid.u_end, NoType, axes, els),
                                els),
                 v_start, v_end, grid, include_footings)

\* stage_id, zone_id and sequence_order given to the stages of a declaration
NumberedStages(seq_num, specs, first) ==
    [k \in 1..Len(specs) |->
        ErectionStage(seq_num, k, specs[k].element_type, specs[k].grid_range,
                      specs[k].elements, first + k - 1)]

\* the sub-ranges of a declaration, each with its stages
RangeStages(seq, ranges, include_footings, axes, els) ==
    Concat([r \in 1..Len(ranges) |->
        AreaStages(ranges[r][1], ranges[r][2], seq.grid_selection,
                   include_footings, axes, els)])

\* the stages of one declaration; `first` is stage_order on entry
SequenceStages(seq, include_footings, axes, els, first) ==
    NumberedStages(seq.sequence_number,
                   RangeStages(seq, VRanges(seq), include_footings, axes, els),
                   first)

\* element_counts[stage.element_type] += len(stage.elements)
StageCounts(zone_stages) ==
    LET cats == {zone_stages[i].element_type : i \in 1..Len(zone_stages)}
        total(c) ==
            Len(Concat([i \in 1..Len(zone_stages) |->
                           IF zone_stages[i].element_type = c
                           THEN zone_stages[i].elements ELSE <<>>]))
    IN  [c \in cats |-> total(c)]

\* the zone of a declaration, filled from the stages that carry its zone_id
SequenceZone(seq, st) ==
    LET zone_stages == SelectSeq(st, LAMBDA s : s.zone_id = seq.sequence_number)
        g == seq.grid_selection
    IN  ErectionZone(seq.sequence_number,
                     GridName(g.v_start, g.v_end, g.u_start, g.u_end, ""),
                     <<>>, <<0, 0>>, <<0, 0>>,
                     Concat([i \in 1..Len(zone_stages) |-> zone_stages[i].elements]),
                     StageCounts(zone_stages))

\* zs with the zone put under its zone_id
PutZone(zs, zone) ==
    [k \in (DOMAIN zs) \cup {zone.zone_id} |->
        IF k = zone.zone_id THEN zone ELSE zs[k]]

RECURSIVE UserSequencesFrom(_, _, _, _, _, _, _)
\* the registries after the stages `new` of the first declaration
UserSequencesWith(new, sequences, include_footings, axes, els, zs, st, stage_order) ==
    UserSequencesFrom(Tail(sequences), include_footings, axes, els,
                      PutZone(zs, SequenceZone(Head(sequences), st \o new)),
                      st \o new, stage_order + Len(new))

UserSequencesFrom(sequences, include_footings, axes, els, zs, st, stage_order) ==
    IF sequences = <<>> THEN [zones |-> zs, stages |-> st]
    ELSE UserSequencesWith(SequenceStages(Head(sequences), include_footings, axes,
                                          els, stage_order),
                           sequences, include_footings, axes, els, zs, st, stage_order)

\* zones and stages after generate_from_user_sequences
GenerateFromUserSequences(sequences, include_footings, axes, els) ==
    UserSequencesFrom(sequences, include_footings, axes, els, <<>>, <<>>, 1)

(***************************************************************************)
(* The calls of the routes on a loaded service                             *)
(***************************************************************************)
\* arguments tried: a zone that exists or not, with a new name, a wider
\* x_range, a wider y_range, or all three
ZoneIds == 1..2

Edits ==
    {[name |-> "North", x_range |-> NoRange, y_range |-> NoRange],
     [name |-> NoName, x_range |-> <<0, 60060>>, y_range |-> NoRange],
     [name |-> NoName, x_range |-> NoRange, y_range |-> <<0, 12060>>],
     [name |-> "North", x_range |-> <<0, 60060>>, y_range |-> <<0, 12060>>]}

\* A call is taken after a call that writes the registries.  The queries
\* further down write none of them: a call taken after a query would start
\* from the registries the query started from.
AfterWrite ==
    last_call.op \in {"analyze", "update_zone", "generate_from_user_sequences"}

UpdateZone(zone_id, name, x_range, y_range) ==
    /\ analyzed
    /\ AfterWrite
    /\ n_edits < MaxEdits
    /\ IF zone_id \in DOMAIN zones
       THEN \E r \in {UpdateZoneResult(zone_id, name, x_range, y_range,
                                      zones, elements, levels, stages)} :
                /\ zones' = r.zones
                /\ stages' = r.stages
                /\ phase' = IF phase \in {"auto", "updated"} THEN "updated"
                            ELSE IF phase = "edited" THEN "edited" ELSE "other"
       ELSE UNCHANGED <<zones, stages, phase>>
    /\ n_edits' = n_edits + 1
    \* the service returns the zone, or None, which the route answers with 404
    /\ last_call' = [op |-> "update_zone", zone_id |-> zone_id,
                     found |-> zone_id \in DOMAIN zones]
    /\ UNCHANGED <<ifc, levels, grid_axes, grid_cells, elements, analyzed,
                   grid_detected, n_analyze, n_requests>>
    /\ UNCHANGED review_vars

\* the split lists tried: none, or every interior axis of the gridded
\* buildings, listed from the highest down
SplitLists == {<<>>, [i \in 1..MaxSplits |-> VTag(MaxSplits + 2 - i)]}

\* sequence numbers of a request of n declarations: 1, 2, ..., n or all 1
Numberings(n) == {[i \in 1..n |-> i], [i \in 1..n |-> 1]}

Requests ==
    UNION {{[sequences |->
                [i \in 1..n |-> SeqDecl(num[i], VTag(1), VTag(NumBays + 1),
                                        <<"A">>, <<"J">>, splits)],
             include_footings |-> f] :
               num \in Numberings(n), splits \in SplitLists, f \in BOOLEAN} :
           n \in 0..MaxSeqs}

\* generate_from_user_sequences clears zones and stages before it rebuilds
\* them, so that the calls before it do not show in its result
UserSequences(request) ==
    /\ analyzed
    /\ AfterWrite
    /\ n_requests < MaxRequests
    /\ \E r \in {GenerateFromUserSequences(request.sequences,
                                          request.include_footings,
                                          grid_axes, elements)} :
           /\ zones' = r.zones
           /\ stages' = r.stages
    /\ phase' = IF phase \in {"auto", "updated", "edited"} THEN "edited" ELSE "other"
    /\ n_edits' = 0
    /\ n_requests' = n_requests + 1
    /\ last_call' = [op |-> "generate_from_user_sequences", request |-> request]
    /\ UNCHANGED <<ifc, levels, grid_axes, grid_cells, elements, analyzed,
                   grid_detected, n_analyze>>
    /\ UNCHANGED review_vars

\* the queries leave the registries as they are; the call and its answer
\* are kept in last_call
Asked(call) ==
    /\ analyzed
    /\ AfterWrite
    /\ last_call' = call
    /\ UNCHANGED <<ifc, levels, grid_axes, grid_cells, elements, zones, stages,
                   analyzed, grid_detected, phase, n_analyze, n_edits, n_requests>>
    /\ UNCHANGED review_vars

ElementsByZone(zone_id) ==
    Asked([op |-> "get_elements_by_zone", zone_id |-> zone_id,
           result |-> GetElementsByZone(zone_id, zones, elements)])

ElementsByStage(stage_id) ==
    Asked([op |-> "get_elements_by_stage", stage_id |-> stage_id,
           result |-> GetElementsByStage(stage_id, stages, elements)])

\* /zones/{zone_id}/express-ids
ZoneExpressIds(zone_id) ==
    Asked([op |-> "get_express_ids_by_zone", zone_id |-> zone_id,
           result |-> GetExpressIdsByZone(zone_id, zones, elements)])

\* /stages/{stage_id}/express-ids
StageExpressIds(stage_id) ==
    Asked([op |-> "get_express_ids_by_stage", stage_id |-> stage_id,
           result |-> GetExpressIdsByStage(stage_id, stages, elements)])

\* /grid-express-ids.  The answer is computed from grid_axes and elements,
\* which analyze alone writes: the query is taken on the service as loaded.
GridAreaExpressIds(v_start, v_end, u_start, u_end, element_type) ==
    /\ phase = "auto"
    /\ Asked([op |-> "get_express_ids_by_grid_area",
              v_start |-> v_start, v_end |-> v_end,
              u_start |-> u_start, u_end |-> u_end, element_type |-> element_type,
              result |-> GetExpressIdsByGridArea(v_start, v_end, u_start, u_end,
                                                 element_type, grid_axes, elements)])

\* ids asked for: those of the zones and stages held, and one that is not held
ZoneIdsAsked == ZoneIds \cup {Max(ZoneIds) + 1}

StageIdsAsked ==
    {stages[i].stage_id : i \in 1..Len(stages)}
    \cup {StageId(Max(ZoneIds) + 1, 1)}

\* tags asked for: those of the axes held in the direction, and one that no
\* axis carries
TagsAsked(direction) ==
    {grid_axes[i].tag : i \in {k \in 1..Len(grid_axes) :
                                  grid_axes[k].direction = direction}}
    \cup {<<"Z", "Z">>}

(***************************************************************************)
(* The methodology review: models.py, review_service.py, routes/review.py  *)
(* Texts that the code builds or tests are sequences of characters; the    *)
(* texts of suggestions (description, suggestion) and the time stamps are  *)
(* left out.                                                               *)
(***************************************************************************)
CONSTRUCTION_SEQUENCE ==
    <<"footings", "columns", "bracing", "beams", "slabs", "walls", "railings", "stairs">>

\* SAFETY_DEPENDENCIES.items(), in the order of the dict literal
SAFETY_DEPENDENCIES ==
    << [element_type |-> "columns",  required_before |-> <<"footings">>],
       [element_type |-> "beams",    required_before |-> <<"columns">>],
       [element_type |-> "bracing",  required_before |-> <<"columns">>],
       [element_type |-> "slabs",    required_before |-> <<"beams">>],
       [element_type |-> "railings", required_before |-> <<"slabs">>] >>

\* None where a text is optional.  The empty text is the same value: update_stage
\* treats a name alike when it is None and when it is empty, and no request
\* of the model carries an empty text elsewhere.
None == <<>>

\* AISuggestion.status and SuggestionUpdateRequest.action
pending == <<"p", "e", "n", "d", "i", "n", "g">>
accepted == <<"a", "c", "c", "e", "p", "t", "e", "d">>
rejected == <<"r", "e", "j", "e", "c", "t", "e", "d">>
ignored == <<"i", "g", "n", "o", "r", "e", "d">>
accept == <<"a", "c", "c", "e", "p", "t">>
reject == <<"r", "e", "j", "e", "c", "t">>
ignore == <<"i", "g", "n", "o", "r", "e">>

\* StageEdit.name: the label f"Stage {stage_id} - {level_short} {type}" that
\* _generate_stages gave (one label per stage id), or the text of a request
GeneratedName(stage_id, element_type) ==
    [stage_id |-> stage_id, element_type |-> element_type, text |-> None]

GivenName(text) == [stage_id |-> None, element_type |-> "", text |-> text]

StageEdit(stage_id, name, element_type, zone_id, sequence_order, element_ids) ==
    [stage_id |-> stage_id, name |-> name, element_type |-> element_type,
     zone_id |-> zone_id, sequence_order |-> sequence_order,
     element_ids |-> element_ids, is_reviewed |-> FALSE, reviewer_notes |-> None]

ZoneEdit(zone_id, name, storey_name, zone_stages) ==
    [zone_id |-> zone_id, name |-> name, storey_name |-> storey_name,
     stages |-> zone_stages]

\* AISuggestion.title: the text with the values interpolated into it
Title(text, count, element_type, required) ==
    [text |-> text, count |-> count, element_type |-> element_type,
     required |-> required]

\* id is given when the suggestion is appended to a review
AISuggestion(type, severity, title, affected_stages, auto_fixable) ==
    [id |-> 0, type |-> type, severity |-> severity, title |-> title,
     affected_stages |-> affected_stages, auto_fixable |-> auto_fixable,
     status |-> pending]

ReviewStatus(status, reviewed_by, comments) ==
    [status |-> status, reviewed_by |-> reviewed_by, comments |-> comments]

\* the ids of a dict of zones in the order of insertion of analyze()
RECURSIVE Ascending(_)
Ascending(S) == IF S = {} THEN <<>> ELSE <<Min(S)>> \o Ascending(S \ {Min(S)})

\* routes/review.py get_methodology_data
GetMethodologyData(zs, sts, els) ==
    LET ids == Ascending(DOMAIN zs)
    IN  [zones |-> [i \in 1..Len(ids) |->
                       [zone_id |-> zs[ids[i]].zone_id, zone_name |-> zs[ids[i]].name,
                        storey_name |-> ""]],
         stages |-> [i \in 1..Len(sts) |->
                       [stage_id |-> sts[i].stage_id,
                        name |-> GeneratedName(sts[i].stage_id, sts[i].element_type),
                        element_type |-> sts[i].element_type,
                        zone_id |-> sts[i].zone_id,
                        sequence_order |-> sts[i].sequence_order,
                        element_ids |->
                            ExpressIds(SelectSeq(els, LAMBDA elem :
                                \E k \in 1..Len(sts[i].elements) :
                                    sts[i].elements[k] = elem.global_id))]],
         total_elements |-> Len(els)]

\* all_stages: the stages of every zone, in order
AllStages(review) ==
    Concat([i \in 1..Len(review.zones) |-> review.zones[i].stages])

\* _count_assigned_elements
CountAssignedElements(review) ==
    Cardinality(UNION {Range(AllStages(review)[i].element_ids) :
                           i \in 1..Len(AllStages(review))})

\* ReviewService.create_review
CreateReviewResult(methodology_data) ==
    LET zone_stages(zone_id) ==
            LET of_zone == SelectSeq(methodology_data.stages,
                                     LAMBDA stage_data : stage_data.zone_id = zone_id)
            IN  [i \in 1..Len(of_zone) |->
                    StageEdit(of_zone[i].stage_id, of_zone[i].name,
                              of_zone[i].element_type, zone_id,
                              of_zone[i].sequence_order, of_zone[i].element_ids)]
        review_zones ==
            [i \in 1..Len(methodology_data.zones) |->
                ZoneEdit(methodology_data.zones[i].zone_id,
                         methodology_data.zones[i].zone_name,
                         methodology_data.zones[i].storey_name,
                         zone_stages(methodology_data.zones[i].zone_id))]
        review == [status |-> ReviewStatus("draft", None, None),
                   zones |-> review_zones,
                   suggestions |-> <<>>,
                   total_elements |-> methodology_data.total_elements,
                   assigned_elements |-> 0]
    IN  [review EXCEPT !.assigned_elements = CountAssignedElements(review)]

\* the stage_ids of a list of stages
StageIdsOf(sts) == [i \in 1..Len(sts) |-> sts[i].stage_id]

\* _check_sequence_order, for one zone
CheckSequenceOrderOfZone(zone) ==
    LET type_order ==
            [k \in 1..Len(CONSTRUCTION_SEQUENCE) |->
                SelectSeq(zone.stages,
                          LAMBDA stage : stage.element_type = CONSTRUCTION_SEQUENCE[k])]
        \* the places in CONSTRUCTION_SEQUENCE of the types the zone has, as
        \* the loop over CONSTRUCTION_SEQUENCE meets them
        met == SelectSeq([k \in 1..Len(CONSTRUCTION_SEQUENCE) |-> k],
                         LAMBDA k : type_order[k] # <<>>)
        \* expected < prev_expected and prev_type
        reported == SelectSeq([i \in 1..Len(met) |-> i],
                              LAMBDA i : i > 1 /\ met[i] - 1 < met[i - 1] - 1)
    IN  [j \in 1..Len(reported) |->
            AISuggestion("sequence", "warning",
                         Title("Sequence issue in Zone", zone.zone_id, "", ""),
                         StageIdsOf(type_order[met[reported[j]]]), TRUE)]

CheckSequenceOrder(review_zones) ==
    Concat([i \in 1..Len(review_zones) |-> CheckSequenceOrderOfZone(review_zones[i])])

\* type_first_order of _check_safety_dependencies
TypeFirstOrder(sts) ==
    [et \in {sts[i].element_type : i \in 1..Len(sts)} |->
        Min({sts[i].sequence_order : i \in {k \in 1..Len(sts) : sts[k].element_type = et}})]

\* _check_safety_dependencies
CheckSafetyDependencies(sts) ==
    LET type_first_order == TypeFirstOrder(sts)
        affected(element_type) ==
            StageIdsOf(SelectSeq(sts, LAMBDA s : s.element_type = element_type))
        of_pair(element_type, required) ==
            IF required \notin DOMAIN type_first_order
            THEN <<AISuggestion("safety", "error", Title("Missing prerequisite", 0, "", required),
                                affected(element_type), FALSE)>>
            ELSE IF type_first_order[required] >= type_first_order[element_type]
            THEN <<AISuggestion("safety", "error",
                                Title("Safety concern", 0, element_type, required),
                                affected(element_type), TRUE)>>
            ELSE <<>>
        of_item(item) ==
            IF item.element_type \in DOMAIN type_first_order
            THEN Concat([k \in 1..Len(item.required_before) |->
                            of_pair(item.element_type, item.required_before[k])])
            ELSE <<>>
    IN  Concat([i \in 1..Len(SAFETY_DEPENDENCIES) |-> of_item(SAFETY_DEPENDENCIES[i])])

\* _check_empty_stages
CheckEmptyStages(sts) ==
    LET empty_stages == SelectSeq(sts, LAMBDA s : Len(s.element_ids) = 0)
    IN  IF empty_stages # <<>>
        THEN <<AISuggestion("grouping", "info", Title("empty stage(s)", Len(empty_stages), "", ""),
                            StageIdsOf(empty_stages), TRUE)>>
        ELSE <<>>

\* _check_naming_consistency
CheckNamingConsistency(sts) ==
    LET duplicates == {sts[i].name : i \in {k \in 1..Len(sts) :
                           \E m \in 1..Len(sts) : m # k /\ sts[m].name = sts[k].name}}
    IN  IF duplicates # {}
        THEN <<AISuggestion("naming", "info", Title("Duplicate stage names", 0, "", ""),
                            StageIdsOf(SelectSeq(sts, LAMBDA s : s.name \in duplicates)),
                            FALSE)>>
        ELSE <<>>

\* run_rule_based_analysis
RunRuleBasedAnalysis(review) ==
    LET all_stages == AllStages(review)
        missing_count == review.total_elements - review.assigned_elements
    IN  CheckSequenceOrder(review.zones)
        \o CheckSafetyDependencies(all_stages)
        \o (IF review.total_elements > review.assigned_elements
            THEN <<AISuggestion("missing", "warning",
                                Title("unassigned elements", missing_count, "", ""), <<>>, FALSE)>>
            ELSE <<>>)
        \o CheckEmptyStages(all_stages)
        \o CheckNamingConsistency(all_stages)

\* the route run_rule_analysis: the suggestions are appended, each under an
\* id of its own (uuid4), and update_status(review, "ai_reviewed")
RunRuleAnalysisResult(review) ==
    LET suggestions == RunRuleBasedAnalysis(review)
        n == Len(review.suggestions)
    IN  [review EXCEPT
            !.suggestions = @ \o [i \in 1..Len(suggestions) |->
                                     [suggestions[i] EXCEPT !.id = n + i]],
            !.status = [@ EXCEPT !.status = "ai_reviewed"]]

\* the route update_suggestion: status = request.action + "ed"
UpdateSuggestionResult(review, suggestion_id, action) ==
    LET found == {i \in 1..Len(review.suggestions) :
                      review.suggestions[i].id = suggestion_id}
    IN  IF found = {} THEN [code |-> 404, review |-> review]
        ELSE IF action \notin {accept, reject, ignore} THEN [code |-> 400, review |-> review]
        ELSE [code |-> 200,
              review |-> [review EXCEPT !.suggestions[Min(found)].status =
                                            action \o <<"e", "d">>]]

\* where update_stage and delete_stage find stage_id: the zone and the place
\* in it of the first stage with the id, <<>> when no stage has it
FindStage(review, stage_id) ==
    LET holding == {zi \in 1..Len(review.zones) :
                       \E si \in 1..Len(review.zones[zi].stages) :
                           review.zones[zi].stages[si].stage_id = stage_id}
    IN  IF holding = {} THEN <<>>
        ELSE <<Min(holding),
               Min({si \in 1..Len(review.zones[Min(holding)].stages) :
                        review.zones[Min(holding)].stages[si].stage_id = stage_id})>>

\* list.remove of the element at place i
RemoveAt(s, i) == [k \in 1..(Len(s) - 1) |-> IF k < i THEN s[k] ELSE s[k + 1]]

\* update_stage; updates is the dict of the fields the request carries
UpdateStageResult(review, stage_id, updates) ==
    LET at == FindStage(review, stage_id)
    IN  IF at = <<>> THEN [ok |-> FALSE, message |-> "Stage not found", review |-> review]
        ELSE
        LET zi == at[1]
            si == at[2]
            zone == review.zones[zi]
            stage == zone.stages[si]
            moved == "zone_id" \in DOMAIN updates /\ updates.zone_id # zone.zone_id
            targets == IF moved
                       THEN {k \in 1..Len(review.zones) :
                                review.zones[k].zone_id = updates.zone_id}
                       ELSE {}
            named == IF "name" \in DOMAIN updates /\ updates.name # None
                     THEN [stage EXCEPT !.name = GivenName(updates.name)] ELSE stage
            rezoned == IF targets # {}
                       THEN [named EXCEPT !.zone_id = updates.zone_id] ELSE named
            ordered == IF "sequence_order" \in DOMAIN updates
                       THEN [rezoned EXCEPT !.sequence_order = updates.sequence_order]
                       ELSE rezoned
            filled == IF "element_ids" \in DOMAIN updates
                      THEN [ordered EXCEPT !.element_ids = updates.element_ids]
                      ELSE ordered
            checked == IF "is_reviewed" \in DOMAIN updates
                       THEN [filled EXCEPT !.is_reviewed = updates.is_reviewed]
                       ELSE filled
            noted == IF "reviewer_notes" \in DOMAIN updates
                     THEN [checked EXCEPT !.reviewer_notes = updates.reviewer_notes]
                     ELSE checked
            review_zones ==
                [k \in 1..Len(review.zones) |->
                    LET z == review.zones[k]
                        kept == IF k # zi THEN z.stages
                                ELSE IF moved THEN RemoveAt(z.stages, si)
                                ELSE [z.stages EXCEPT ![si] = noted]
                    IN  [z EXCEPT !.stages =
                            IF targets # {} /\ k = Min(targets)
                            THEN kept \o <<noted>> ELSE kept]]
        IN  [ok |-> TRUE, message |-> "Stage updated successfully",
             review |-> [review EXCEPT !.zones = review_zones]]

\* create_stage
CreateStageResult(review, name, element_type, zone_id, element_ids) ==
    LET found == {k \in 1..Len(review.zones) : review.zones[k].zone_id = zone_id}
    IN  IF found = {} THEN [ok |-> FALSE, message |-> "Zone not found", review |-> review]
        ELSE
        LET target_zone == review.zones[Min(found)]
            stage == StageEdit(StageId(zone_id, Len(target_zone.stages) + 1),
                               GivenName(name), element_type, zone_id,
                               Len(target_zone.stages) + 1, element_ids)
            added == [review EXCEPT !.zones[Min(found)].stages = @ \o <<stage>>]
        IN  [ok |-> TRUE, message |-> "Stage created successfully",
             review |-> [added EXCEPT !.assigned_elements = CountAssignedElements(added)]]

\* delete_stage
DeleteStageResult(review, stage_id) ==
    LET at == FindStage(review, stage_id)
    IN  IF at = <<>> THEN [ok |-> FALSE, message |-> "Stage not found", review |-> review]
        ELSE
        LET removed == [review EXCEPT !.zones[at[1]].stages = RemoveAt(@, at[2])]
        IN  [ok |-> TRUE, message |-> "Stage deleted successfully",
             review |-> [removed EXCEPT
                            !.assigned_elements = CountAssignedElements(removed)]]

\* create_zone
CreateZoneResult(review, name, storey_name) ==
    LET max_zone_id == IF review.zones = <<>> THEN 0
                       ELSE Max({review.zones[k].zone_id : k \in 1..Len(review.zones)})
    IN  [ok |-> TRUE, message |-> "Zone created successfully",
         review |-> [review EXCEPT
                        !.zones = @ \o <<ZoneEdit(max_zone_id + 1, name, storey_name, <<>>)>>]]

\* delete_zone
DeleteZoneResult(review, zone_id) ==
    LET found == {k \in 1..Len(review.zones) : review.zones[k].zone_id = zone_id}
    IN  IF found = {} THEN [ok |-> FALSE, message |-> "Zone not found", review |-> review]
        ELSE IF review.zones[Min(found)].stages # <<>>
        THEN [ok |-> FALSE, message |-> "Cannot delete zone with stages",
              review |-> review]
        ELSE [ok |-> TRUE, message |-> "Zone deleted successfully",
              review |-> [review EXCEPT !.zones = RemoveAt(@, Min(found))]]

\* finalize_review without the test of the unresolved errors
FinalizeReviewUnchecked(review, reviewed_by, comments) ==
    [ok |-> TRUE, message |-> "Methodology finalized successfully",
     review |-> [review EXCEPT
                    !.status = ReviewStatus("finalized", reviewed_by, comments)]]

\* finalize_review
FinalizeReviewResult(review, reviewed_by, comments) ==
    LET unresolved_errors ==
            SelectSeq(review.suggestions,
                      LAMBDA s : s.severity = "error" /\ s.status = pending)
    IN  IF unresolved_errors # <<>>
        THEN [ok |-> FALSE, message |-> "Cannot finalize", review |-> review]
        ELSE [ok |-> TRUE, message |-> "Methodology finalized successfully",
              review |-> [review EXCEPT
                             !.status = ReviewStatus("finalized", reviewed_by, comments)]]

\* the registries of the erection service, which no review call writes
service_vars == <<ifc, levels, grid_axes, grid_cells, elements, zones, stages,
                  analyzed, grid_detected, phase, n_analyze, n_edits, n_requests>>

\* POST /review/{file_id}/create and /reset: the review of the file is made
\* anew from the zones and stages of its methodology service
CreateReview ==
    /\ analyzed
    /\ n_review_calls < MaxReviewCalls
    /\ reviews' = <<CreateReviewResult(GetMethodologyData(zones, stages, elements))>>
    /\ n_review_calls' = n_review_calls + 1
    /\ last_call' = [op |-> "create_review"]
    /\ UNCHANGED service_vars

\* a call on the review held for the file (the routes answer 404 when none
\* is held): the review it leaves, and the call with its answer
Reviewed(review, call) ==
    /\ reviews # <<>>
    /\ n_review_calls < MaxReviewCalls
    /\ reviews' = <<review>>
    /\ n_review_calls' = n_review_calls + 1
    /\ last_call' = call
    /\ UNCHANGED service_vars

\* POST /analyze/rules
RunRuleAnalysis ==
    /\ reviews # <<>>
    /\ Reviewed(RunRuleAnalysisResult(reviews[1]), [op |-> "run_rule_analysis"])

\* PUT /suggestions/{suggestion_id}
UpdateSuggestion(suggestion_id, action) ==
    /\ reviews # <<>>
    /\ \E r \in {UpdateSuggestionResult(reviews[1], suggestion_id, action)} :
           Reviewed(r.review, [op |-> "update_suggestion", suggestion_id |-> suggestion_id,
                               action |-> action, code |-> r.code])

\* PUT /stages/{stage_id}: 404 when the service answers False
UpdateStage(stage_id, updates) ==
    /\ reviews # <<>>
    /\ \E r \in {UpdateStageResult(reviews[1], stage_id, updates)} :
           Reviewed(r.review, [op |-> "update_stage", stage_id |-> stage_id,
                               updates |-> updates, ok |-> r.ok, message |-> r.message])

\* POST /stages: 400 when the service answers False
CreateStage(name, element_type, zone_id, element_ids) ==
    /\ reviews # <<>>
    /\ \E r \in {CreateStageResult(reviews[1], name, element_type, zone_id, element_ids)} :
           Reviewed(r.review, [op |-> "create_stage", zone_id |-> zone_id,
                               element_type |-> element_type, element_ids |-> element_ids,
                               ok |-> r.ok, message |-> r.message])

\* DELETE /stages/{stage_id}
DeleteStage(stage_id) ==
    /\ reviews # <<>>
    /\ \E r \in {DeleteStageResult(reviews[1], stage_id)} :
           Reviewed(r.review, [op |-> "delete_stage", stage_id |-> stage_id,
                               ok |-> r.ok, message |-> r.message])

\* POST /zones
CreateZone(name, storey_name) ==
    /\ reviews # <<>>
    /\ \E r \in {CreateZoneResult(reviews[1], name, storey_name)} :
           Reviewed(r.review, [op |-> "create_zone", ok |-> r.ok, message |-> r.message])

\* DELETE /zones/{zone_id}
DeleteZone(zone_id) ==
    /\ reviews # <<>>
    /\ \E r \in {DeleteZoneResult(reviews[1], zone_id)} :
           Reviewed(r.review, [op |-> "delete_zone", zone_id |-> zone_id,
                               ok |-> r.ok, message |-> r.message])

\* POST /finalize: 400 when the service answers False
FinalizeReview(reviewed_by, comments) ==
    /\ reviews # <<>>
    /\ \E r \in {FinalizeReviewResult(reviews[1], reviewed_by, comments)} :
           Reviewed(r.review, [op |-> "finalize_review", ok |-> r.ok,
                               message |-> r.message])

\* what the review calls of the model carry
\* stage ids: those of the review, and one that no stage has
ReviewStageIds ==
    IF reviews = <<>> THEN {}
    ELSE Range(StageIdsOf(AllStages(reviews[1]))) \cup {StageId(9, 9)}

\* zone ids: those of two zones, and one more
ReviewZoneIds == 1..3

\* the fields of an UpdateStageRequest that are not None
StageUpdates ==
    {[zone_id |-> z] : z \in ReviewZoneIds}
    \cup {[element_ids |-> ids] : ids \in {<<>>, <<1, 4>>}}
    \cup {[sequence_order |-> 1],
          [name |-> <<"N">>, is_reviewed |-> TRUE, reviewer_notes |-> <<"o", "k">>]}

SuggestionIds ==
    IF reviews = <<>> THEN {}
    ELSE {reviews[1].suggestions[i].id : i \in 1..Len(reviews[1].suggestions)} \cup {0}

\* actions asked of a suggestion: the three the route knows, and another
apply == <<"a", "p", "p", "l", "y">>

SuggestionActions == {accept, reject, ignore, apply}

\* FinalizeRequest.reviewed_by
Reviewer == <<"m", "e">>

\* _detect_zones on the elements of a file, in the float arithmetic of the
\* code: the tiles that become zones are kept with the call
DetectedTiles ==
    /\ ~analyzed
    /\ last_call = NoCall
    /\ last_call' = [op |-> "_detect_zones",
                     elements |-> ElementsStep(ifc, LevelsStep(ifc, Fresh)).elements,
                     tiles |-> DetectZoneTiles(
                                   ElementsStep(ifc, LevelsStep(ifc, Fresh)).elements)]
    /\ UNCHANGED <<ifc, levels, grid_axes, grid_cells, elements, zones, stages,
                   analyzed, grid_detected, phase, n_analyze, n_edits, n_requests>>
    /\ UNCHANGED review_vars

(***************************************************************************)
(* Specifications                                                          *)
(*   Spec        : a loaded service under zone edits and user-declared     *)
(*                 sequences, on the two-tile, one-column and gridded files   *)
(*   SpecZones   : a loaded service under zone edits, on every file        *)
(*   SpecAnalyze : analyze() run up to MaxAnalyze times on one service     *)
(*   SpecQueries : Spec with the per-zone and per-stage queries            *)
(*   SpecGridArea: a loaded service under grid-area queries and           *)
(*                 user-declared sequences                                 *)
(*   SpecReview  : the review of a loaded service under stage and zone     *)
(*                 edits                                                   *)
(*   SpecSuggestions: the review under rule analysis, answers to its       *)
(*                 suggestions and finalisation                            *)
(*   SpecStageIds: the review under create_stage and delete_stage alone    *)
(*   SpecTiles   : _detect_zones in float arithmetic on corner buildings   *)
(***************************************************************************)
Init == InitWith(CoreFiles)

Next ==
    \/ Load
    \/ \E zone_id \in ZoneIds, edit \in Edits :
           UpdateZone(zone_id, edit.name, edit.x_range, edit.y_range)
    \/ \E request \in Requests : UserSequences(request)

Spec == Init /\ [][Next]_vars

InitZones == InitWith(Files)

NextZones ==
    \/ Load
    \/ \E zone_id \in ZoneIds, edit \in Edits :
           UpdateZone(zone_id, edit.name, edit.x_range, edit.y_range)

SpecZones == InitZones /\ [][NextZones]_vars

InitAnalyze == InitWith(Files)

NextAnalyze == Analyze

SpecAnalyze == InitAnalyze /\ [][NextAnalyze]_vars

\* the files of the zone and stage queries: the two-tile and one-column
\* buildings and the gridded building with every element
QueryFiles ==
    {WholeFile, ScenarioFile}
    \cup {f \in GridFiles : Len(f.elems) = Len(GridCatalogue)}

InitQueries == InitWith(QueryFiles)

NextQueries ==
    \/ Load
    \/ \E zone_id \in ZoneIds, edit \in Edits :
           UpdateZone(zone_id, edit.name, edit.x_range, edit.y_range)
    \/ \E request \in Requests : UserSequences(request)
    \/ \E zone_id \in ZoneIdsAsked : ElementsByZone(zone_id)
    \/ \E stage_id \in StageIdsAsked : ElementsByStage(stage_id)
    \/ \E zone_id \in ZoneIdsAsked : ZoneExpressIds(zone_id)
    \/ \E stage_id \in StageIdsAsked : StageExpressIds(stage_id)

SpecQueries == InitQueries /\ [][NextQueries]_vars

\* the files of the grid-area queries
FlatAxesFile ==
    File(Storeys(1), TRUE,
         <<FileAxis(<<"A">>, 0), FileAxis(<<"B">>, 0)>>,
         <<FileAxis(<<"1">>, 0), FileAxis(<<"2">>, 4000)>>,
         TwoColumns)

GridAreaFiles ==
    GridFiles \cup OtherGridFiles
    \cup {ScenarioFile, FlatAxesFile, WholeFile, SpreadFile}

InitGridArea == InitWith(GridAreaFiles)

NextGridArea ==
    \/ Load
    \/ \E v_start, v_end \in TagsAsked("V"), u_start, u_end \in TagsAsked("U"),
          element_type \in {NoType, "columns"} :
           GridAreaExpressIds(v_start, v_end, u_start, u_end, element_type)
    \/ \E request \in Requests : UserSequences(request)

SpecGridArea == InitGridArea /\ [][NextGridArea]_vars

\* the files under review: the one-column building, which has no zone; a
\* footing and a column in one zone; a column and a beam without footing;
\* and a building of two zones
ReviewFiles ==
    {ScenarioFile,
     File(Storeys(2), FALSE, <<>>, <<>>, Pick(Catalogue, {1, 4, 8})),
     File(Storeys(2), FALSE, <<>>, <<>>, Pick(Catalogue, {1, 5, 8})),
     File(Storeys(2), FALSE, <<>>, <<>>, Pick(Catalogue, {1, 4, 6, 8}))}

InitReview == InitWith(ReviewFiles)

\* the review under the edits of its stages and zones
NextReview ==
    \/ Load
    \/ CreateReview
    \/ \E stage_id \in ReviewStageIds, updates \in StageUpdates :
           UpdateStage(stage_id, updates)
    \/ \E element_type \in {"footings", "beams"}, zone_id \in ReviewZoneIds,
          element_ids \in {<<>>, <<1>>} :
           CreateStage(<<"N">>, element_type, zone_id, element_ids)
    \/ \E stage_id \in ReviewStageIds : DeleteStage(stage_id)
    \/ CreateZone(UserName("N"), "")
    \/ \E zone_id \in ReviewZoneIds : DeleteZone(zone_id)

SpecReview == InitReview /\ [][NextReview]_vars

\* the review under rule analysis, the answers to its suggestions and
\* finalisation, with the edits that put the stages of a zone out of order
NextSuggestions ==
    \/ Load
    \/ CreateReview
    \/ \E stage_id \in ReviewStageIds : UpdateStage(stage_id, [sequence_order |-> 1])
    \/ \E zone_id \in 1..2 : CreateStage(<<"N">>, "footings", zone_id, <<>>)
    \/ RunRuleAnalysis
    \/ \E suggestion_id \in SuggestionIds, action \in SuggestionActions :
           UpdateSuggestion(suggestion_id, action)
    \/ FinalizeReview(Reviewer, None)

SpecSuggestions == InitReview /\ [][NextSuggestions]_vars

\* the review under create_stage and delete_stage alone
NextStageIds ==
    \/ Load
    \/ CreateReview
    \/ \E element_type \in {"footings", "beams"}, zone_id \in ReviewZoneIds,
          element_ids \in {<<>>, <<1>>} :
           CreateStage(<<"N">>, element_type, zone_id, element_ids)
    \/ \E stage_id \in ReviewStageIds : DeleteStage(stage_id)

SpecStageIds == InitReview /\ [][NextStageIds]_vars

\* the files of the tiling: three columns on the corners of a bounding box
\* that starts at x = lo and is x_range wide and y_range deep
CornerFile(lo, x_range, y_range) ==
    File(Storeys(1), FALSE, <<>>, <<>>,
         <<FileElem(1, "IfcColumn", lo, 0, 0, ""),
           FileElem(2, "IfcColumn", lo + x_range, 0, 0, ""),
           FileElem(3, "IfcColumn", lo, y_range, 0, "")>>)

\* ranges that the tile count divides, and ranges that it does not
TileRanges == {0, 60000, 83305, 83306, 90000, 120000, 150000, 180000, 196609, 196610}

TileFiles ==
    {CornerFile(lo, x_range, y_range) :
        lo \in {0, 10000}, x_range \in TileRanges, y_range \in TileRanges}

InitTiles == InitWith(TileFiles)

NextTiles == DetectedTiles

SpecTiles == InitTiles /\ [][NextTiles]_vars

(***************************************************************************)
(* Properties                                                              *)
(***************************************************************************)
\* the place of x in the sequence s, 0 when absent
RankIn(s, x) ==
    IF \E i \in 1..Len(s) : s[i] = x THEN CHOOSE i \in 1..Len(s) : s[i] = x ELSE 0

\* the category orders as the specification states them
PrimaryRanks == <<"footings", "columns", "beams", "bracing", "slabs">>

SecondaryRanks == <<"walls", "stairs", "railings">>

\* the elevation of the level called name
ElevationOf(name) ==
    levels[CHOOSE i \in 1..Len(levels) : levels[i].name = name].elevation

\* a stage of the automatic walk lists registered elements of one level
OnOneLevel(s) ==
    /\ s.elements # <<>>
    /\ \A k \in 1..Len(s.elements) :
           /\ HasElem(elements, s.elements[k])
           /\ ElemAt(elements, s.elements[k]).level
                  = ElemAt(elements, s.elements[1]).level
    /\ \E i \in 1..Len(levels) :
           levels[i].name = ElemAt(elements, s.elements[1]).level

\* <<0 primary / 1 secondary, elevation of the level, rank of the category>>
WalkKey(s) ==
    <<IF RankIn(PrimaryRanks, s.element_type) > 0 THEN 0 ELSE 1,
      ElevationOf(ElemAt(elements, s.elements[1]).level),
      RankIn(PrimaryRanks, s.element_type) + RankIn(SecondaryRanks, s.element_type)>>

TripleLess(a, b) ==
    \/ a[1] < b[1]
    \/ a[1] = b[1] /\ a[2] < b[2]
    \/ a[1] = b[1] /\ a[2] = b[2] /\ a[3] < b[3]

\* C1: after analyze on a fresh service, the stages of each zone are numbered
\* in strictly increasing sequence_order in this order: the primary stages by
\* (elevation of the level, footings < columns < beams < bracing < slabs),
\* then the secondary stages by (elevation, walls < stairs < railings).
C1_AutoStagesFollowWalkOrder ==
    phase = "auto" =>
        /\ \A i \in 1..Len(stages) :
               /\ OnOneLevel(stages[i])
               /\ RankIn(PrimaryRanks \o SecondaryRanks, stages[i].element_type) > 0
        /\ \A i, j \in 1..Len(stages) :
               (i # j /\ stages[i].zone_id = stages[j].zone_id) =>
                   /\ stages[i].sequence_order # stages[j].sequence_order
                   /\ TripleLess(WalkKey(stages[i]), WalkKey(stages[j]))
                          <=> stages[i].sequence_order < stages[j].sequence_order

\* a zone with a primary stage of an upper level numbered before a secondary
\* stage of a lower level, and two primary stages of one level
C1_Witness ==
    /\ phase = "auto"
    /\ \E i, j, k \in 1..Len(stages) :
           /\ stages[i].zone_id = stages[j].zone_id
           /\ stages[i].zone_id = stages[k].zone_id
           /\ WalkKey(stages[i])[1] = 0
           /\ WalkKey(stages[j])[1] = 1
           /\ WalkKey(stages[k])[1] = 0
           /\ WalkKey(stages[j])[2] < WalkKey(stages[i])[2]
           /\ WalkKey(stages[k])[2] = WalkKey(stages[i])[2]
           /\ stages[k].sequence_order < stages[i].sequence_order
           /\ stages[i].sequence_order < stages[j].sequence_order

\* the number n of a stage_id "zone.n"
SubStageOf(stage_id) ==
    LET dot == CHOOSE i \in 1..Len(stage_id) : stage_id[i] = "."
    IN  IntOf(SubSeq(stage_id, dot + 1, Len(stage_id)))

\* C2: after update_zone has regenerated a zone's stages and renumbered
\* sequence_order, the stages of every zone are numbered in increasing
\* sub-stage number n of their stage_id "zone.n", however many stages the
\* zone has, and the stages of a lower zone_id come before those of a
\* higher one.
C2_RenumberingFollowsSubStageNumber ==
    phase = "updated" =>
        \A i, j \in 1..Len(stages) :
            (\/ stages[i].zone_id < stages[j].zone_id
             \/ /\ stages[i].zone_id = stages[j].zone_id
                /\ SubStageOf(stages[i].stage_id) < SubStageOf(stages[j].stage_id))
            => stages[i].sequence_order < stages[j].sequence_order

\* C3: for the building with U axes at 0 and 10000, V axes at 0 and 8000,
\* the level Ground at elevation 0 and one column at (5000, 4000, 0), analyze
\* leaves one grid cell, the column assigned to it, one zone that lists the
\* column, and one stage, of category columns, with sequence_order 1.
C3_OneColumnScenario ==
    (ifc = ScenarioFile /\ phase = "auto") =>
        /\ Len(grid_cells) = 1
        /\ Len(elements) = 1
        /\ elements[1].grid_cell = grid_cells[1].name
        /\ Cardinality(DOMAIN zones) = 1
        /\ \A z \in DOMAIN zones : zones[z].elements = <<elements[1].global_id>>
        /\ Len(stages) = 1
        /\ stages[1].element_type = "columns"
        /\ stages[1].sequence_order = 1

C5_ElementInAtMostOneZone ==
    analyzed =>
        \A a, b \in DOMAIN zones :
            a # b => Range(zones[a].elements) \cap Range(zones[b].elements) = {}

\* C6: analyze run again on the same service, the file unchanged, yields the
\* zones and the stages of the first run: as many stages, with the same
\* elements and the same categories in the same order.
C6_ReanalysisRepeatsFirstRun ==
    phase = "reanalyzed" =>
        \E first \in {AnalyzeResult(ifc, Fresh)} :
            /\ zones = first.zones
            /\ Len(stages) = Len(first.stages)
            /\ \A i \in 1..Min({Len(stages), Len(first.stages)}) :
                   /\ stages[i].elements = first.stages[i].elements
                   /\ stages[i].element_type = first.stages[i].element_type

\* C7: after one analyze on a fresh service and any update_zone and
\* generate_from_user_sequences calls, the sequence_order values of the
\* registered stages are exactly 1..N for the N stages, none twice and none
\* missing.
C7_SequenceOrderDense ==
    analyzed =>
        /\ \A i \in 1..Len(stages) : stages[i].sequence_order \in 1..Len(stages)
        /\ \A n \in 1..Len(stages) :
               Cardinality({i \in 1..Len(stages) : stages[i].sequence_order = n}) = 1

\* update_zone on a zone of two declared sequences: the stages that stay are
\* renumbered from 1
C7_Witness ==
    /\ phase = "edited"
    /\ last_call.op = "update_zone"
    /\ Cardinality(DOMAIN zones) = 2
    /\ stages # <<>>
    /\ \A i \in 1..Len(stages) : stages[i].zone_id = 2
    /\ stages[1].sequence_order = 1

C9_NoEmptyStage ==
    \A i \in 1..Len(stages) : stages[i].elements # <<>>

\* footings were asked for and the first stage is a columns stage: the
\* footings combination of the first sub-range matched nothing
C9_Witness ==
    /\ last_call.op = "generate_from_user_sequences"
    /\ last_call.request.include_footings
    /\ stages # <<>>
    /\ stages[1].element_type = "columns"
    /\ \E i \in 1..Len(stages) : stages[i].element_type = "footings"

\* the r-th sub-range of a declaration, the splits taken in ascending order:
\* from the start of the range or the split before, to the r-th split or the
\* end of the range
SubRange(seq, r) ==
    LET cut(n) == CHOOSE t \in Range(seq.splits) :
                      Cardinality({o \in Range(seq.splits) : NumKey(o) < NumKey(t)}) = n - 1
    IN  <<IF r = 1 THEN seq.grid_selection.v_start ELSE cut(r - 1),
          IF r = Len(seq.splits) + 1 THEN seq.grid_selection.v_end ELSE cut(r)>>

\* the elements that the area query selects for a sub-range of a declaration
AreaElements(seq, range) ==
    AreaElementsOf(GetExpressIdsByGridArea(range[1], range[2],
                                           seq.grid_selection.u_start,
                                           seq.grid_selection.u_end, NoType,
                                           grid_axes, elements),
                   elements)

\* the sub-range holds footings, columns and beams, all on one level
HoldsOneLevelFrame(seq, range) ==
    LET area == AreaElements(seq, range)
    IN  /\ \A c \in {"footings", "columns", "beams"} :
               \E i \in 1..Len(area) : area[i].ifc_type \in TypesOf(c)
        /\ \A i, j \in 1..Len(area) : area[i].level = area[j].level

\* C10: with footings enabled, one declared sequence with k interior splits
\* whose k + 1 sub-ranges each hold footings, columns and beams on a single
\* level yields three stages per sub-range, footings, columns, beams in that
\* order, the sub-ranges in ascending split order: 3(k + 1) stages with
\* sequence_order 1..3(k + 1).
C10_ThreeStagesPerSubRange ==
    (/\ last_call.op = "generate_from_user_sequences"
     /\ last_call.request.include_footings
     /\ Len(last_call.request.sequences) = 1
     /\ \A r \in 1..(Len(last_call.request.sequences[1].splits) + 1) :
            HoldsOneLevelFrame(last_call.request.sequences[1],
                               SubRange(last_call.request.sequences[1], r)))
    => \E seq \in {last_call.request.sequences[1]} :
           /\ Len(stages) = 3 * (Len(seq.splits) + 1)
           /\ \A i \in 1..Len(stages) : stages[i].sequence_order = i
           /\ \A r \in 1..(Len(seq.splits) + 1) :
                  3 * r <= Len(stages) =>
                      /\ stages[3 * r - 2].element_type = "footings"
                      /\ stages[3 * r - 1].element_type = "columns"
                      /\ stages[3 * r].element_type = "beams"
                      /\ \A d \in 0..2 :
                             /\ stages[3 * r - d].grid_range.v_lo = SubRange(seq, r)[1]
                             /\ stages[3 * r - d].grid_range.v_hi = SubRange(seq, r)[2]

\* the declaration 2-8 / A-J split at every interior axis, on the building
\* with a footing, a column and a beam in every bay of one level
C10_Witness ==
    /\ last_call.op = "generate_from_user_sequences"
    /\ last_call.request.include_footings
    /\ Len(last_call.request.sequences) = 1
    /\ Len(last_call.request.sequences[1].splits) = MaxSplits
    /\ \A r \in 1..(MaxSplits + 1) :
           HoldsOneLevelFrame(last_call.request.sequences[1],
                              SubRange(last_call.request.sequences[1], r))
    /\ Len(stages) = 3 * (MaxSplits + 1)

\* the stages of zone z in a stage list, in list order, without their
\* sequence_order
StagesUpToOrder(st, z) ==
    LET own == SelectSeq(st, LAMBDA s : s.zone_id = z)
    IN  [i \in 1..Len(own) |->
            [stage_id |-> own[i].stage_id, element_type |-> own[i].element_type,
             elements |-> own[i].elements]]

\* global ids of the elements with x and y inside the half-open ranges
IdsInside(xr, yr) ==
    {elements[i].global_id : i \in
        {k \in 1..Len(elements) :
            /\ xr[1] <= elements[k].x /\ elements[k].x < xr[2]
            /\ yr[1] <= elements[k].y /\ elements[k].y < yr[2]}}

\* C11: update_zone on an existing zone Z with a new coordinate range leaves
\* Z with exactly the elements inside the new half-open range, and leaves
\* every other zone's element list and every other zone's stages (stage_id,
\* category, element list and order among themselves) as they were; only
\* sequence_order may change.
C11_UpdateZoneTouchesOneZone ==
    [][\A zone_id \in ZoneIds, edit \in Edits :
          (/\ zone_id \in DOMAIN zones
           /\ edit.x_range # NoRange \/ edit.y_range # NoRange
           /\ UpdateZone(zone_id, edit.name, edit.x_range, edit.y_range))
          => /\ Range(zones'[zone_id].elements)
                    = IdsInside(zones'[zone_id].x_range, zones'[zone_id].y_range)
             /\ edit.x_range # NoRange => zones'[zone_id].x_range = edit.x_range
             /\ edit.y_range # NoRange => zones'[zone_id].y_range = edit.y_range
             /\ \A z \in DOMAIN zones \ {zone_id} :
                    /\ zones'[z].elements = zones[z].elements
                    /\ StagesUpToOrder(stages', z) = StagesUpToOrder(stages, z)]_vars

\* the tags of the axis records of a family of the file
TagsOf(file_axes) == {file_axes[i].tag : i \in 1..Len(file_axes)}

\* the axes of a direction held by the service, in registry order
AxesOf(direction) == SelectSeq(grid_axes, LAMBDA a : a.direction = direction)

\* C12: when the grids of the file give N >= 2 primary (U) and M >= 2
\* secondary (V) axes after the axes are deduplicated by tag, analyze leaves
\* (N-1) x (M-1) grid cells: one cell for each pair of a U axis with its
\* successor and a V axis with its successor, in position order.
C12_OneCellPerConsecutiveAxisPair ==
    (/\ phase = "auto" /\ ifc.has_grid
     /\ Cardinality(TagsOf(ifc.u_axes)) >= 2
     /\ Cardinality(TagsOf(ifc.v_axes)) >= 2)
    => LET u == AxesOf("U")
           v == AxesOf("V")
       IN  /\ Len(u) = Cardinality(TagsOf(ifc.u_axes))
           /\ Len(v) = Cardinality(TagsOf(ifc.v_axes))
           /\ Len(grid_cells) = (Len(u) - 1) * (Len(v) - 1)
           /\ \A i \in 1..(Len(u) - 1), j \in 1..(Len(v) - 1) :
                  \E k \in 1..Len(grid_cells) :
                      /\ grid_cells[k].u_axis = u[i].tag
                      /\ grid_cells[k].v_axis = v[j].tag
                      /\ {grid_cells[k].x_min, grid_cells[k].x_max}
                             = {u[i].position, u[i + 1].position}
                      /\ {grid_cells[k].y_min, grid_cells[k].y_max}
                             = {v[j].position, v[j + 1].position}

\* C13: every grid cell held by the service, built from the axes of the
\* file or from the virtual grid, has x_min < x_max and y_min < y_max.
C13_CellBoundsNonDegenerate ==
    \A k \in 1..Len(grid_cells) :
        /\ grid_cells[k].x_min < grid_cells[k].x_max
        /\ grid_cells[k].y_min < grid_cells[k].y_max

\* C14: when the grid of the file has fewer than 2 axes in the U family or
\* in the V family, the service holds no grid cell after analyze, and every
\* zone has an empty grid_cells list and the name "Zone {id}".
C14_NoCellsBelowTwoAxes ==
    (/\ phase = "auto" /\ ifc.has_grid
     /\ \/ Cardinality(TagsOf(ifc.u_axes)) < 2
        \/ Cardinality(TagsOf(ifc.v_axes)) < 2)
    => /\ grid_cells = <<>>
       /\ \A z \in DOMAIN zones :
              zones[z].grid_cells = <<>> /\ zones[z].name = ZoneName(z)

\* C15: for a file without grid axes and with at least one element, after
\* analyze each axis family of the virtual grid has at least 2 axes, placed
\* at steps of 10,000 mm from the least element coordinate; the first and
\* the last axis of a family enclose the coordinate of every element, and
\* every element lies inside some cell; there is at least one cell, and at
\* least 4 when the elements span (0,0)-(40000,40000); grid_detected is
\* false.
C15_VirtualGridEnclosesElements ==
    (phase = "auto" /\ ~ifc.has_grid /\ elements # <<>>)
    => LET u == AxesOf("U")
           v == AxesOf("V")
           xs == {elements[i].x : i \in 1..Len(elements)}
           ys == {elements[i].y : i \in 1..Len(elements)}
       IN  /\ Len(u) >= 2 /\ Len(v) >= 2
           /\ \A k \in 1..Len(u) : u[k].position = Min(xs) + (k - 1) * 10000
           /\ \A k \in 1..Len(v) : v[k].position = Min(ys) + (k - 1) * 10000
           /\ \A x \in xs : u[1].position <= x /\ x <= u[Len(u)].position
           /\ \A y \in ys : v[1].position <= y /\ y <= v[Len(v)].position
           /\ \A i \in 1..Len(elements) : \E k \in 1..Len(grid_cells) :
                  /\ grid_cells[k].x_min <= elements[i].x
                  /\ elements[i].x <= grid_cells[k].x_max
                  /\ grid_cells[k].y_min <= elements[i].y
                  /\ elements[i].y <= grid_cells[k].y_max
           /\ Len(grid_cells) >= 1
           /\ (xs \cup ys \subseteq 0..40000 /\ {0, 40000} \subseteq xs \cap ys)
                  => Len(grid_cells) >= 4
           /\ ~grid_detected

\* the virtual grid over (0,0)-(40000,40000): 6 axes per family, 25 cells
C15_Witness ==
    /\ phase = "auto" /\ ifc = SpreadFile
    /\ Len(AxesOf("U")) = 6 /\ Len(AxesOf("V")) = 6
    /\ Len(grid_cells) = 25

\* whether an axis of the direction carries the tag, and the position of the
\* axis that does
Resolves(direction, tag) ==
    \E i \in 1..Len(grid_axes) :
        grid_axes[i].direction = direction /\ grid_axes[i].tag = tag

PositionOf(direction, tag) ==
    grid_axes[CHOOSE i \in 1..Len(grid_axes) :
                  grid_axes[i].direction = direction /\ grid_axes[i].tag = tag].position

DistinctPositions(direction) ==
    {grid_axes[i].position : i \in {k \in 1..Len(grid_axes) :
                                        grid_axes[k].direction = direction}}

\* the condition of a grid-area query q under which the position-based
\* filter is to answer
PositionFilterAnswers(q) ==
    /\ Cardinality(DistinctPositions("U")) > 1
    /\ Cardinality(DistinctPositions("V")) > 1
    /\ Resolves("U", q.u_start) /\ Resolves("U", q.u_end)
    /\ Resolves("V", q.v_start) /\ Resolves("V", q.v_end)
    /\ Abs(PositionOf("U", q.u_end) - PositionOf("U", q.u_start)) >= 1000
    /\ Abs(PositionOf("V", q.v_end) - PositionOf("V", q.v_start)) >= 1000

\* express ids of the elements of the queried type with x and y within
\* margin of the span between the resolved endpoints, bounds included
WithinSpan(q, margin) ==
    LET xs == {PositionOf("U", q.u_start), PositionOf("U", q.u_end)}
        ys == {PositionOf("V", q.v_start), PositionOf("V", q.v_end)}
        hit == SelectSeq(elements, LAMBDA e :
                   /\ Min(xs) - margin <= e.x /\ e.x <= Max(xs) + margin
                   /\ Min(ys) - margin <= e.y /\ e.y <= Max(ys) + margin
                   /\ (q.element_type = NoType
                         \/ e.ifc_type \in TypesOf(q.element_type)))
    IN  [i \in 1..Len(hit) |-> hit[i].express_id]

\* the answer of the proportional strategy to the query q
Proportional(q) ==
    ByProportionalGrid(q.v_start, q.v_end, q.u_start, q.u_end,
                       StableSort(AxesOf("V"), ByNumKeyThenPosition, PairLess),
                       StableSort(AxesOf("U"), ByFirstCharThenPosition, PairLess),
                       q.element_type, elements)

\* C16: a grid-area query is answered by the position-based filter (the
\* elements with x and y inside the resolved span widened by 500 mm on each
\* side, bounds included) exactly when both axis families have more than
\* one distinct position, the four endpoint tags name axes of their
\* families, and the resolved span is at least 1,000 mm in both directions;
\* in every other case it is answered by the proportional strategy.
C16_PositionFilterWhenSpanResolved ==
    last_call.op = "get_express_ids_by_grid_area"
    => last_call.result = IF PositionFilterAnswers(last_call)
                          THEN WithinSpan(last_call, 500)
                          ELSE Proportional(last_call)

\* a query answered by the position filter, and a query over two axes at
\* the same position answered by the proportional strategy, each with an
\* answer the other strategy would not give
C16_Witness ==
    /\ last_call.op = "get_express_ids_by_grid_area"
    /\ Resolves("U", last_call.u_start) /\ Resolves("U", last_call.u_end)
    /\ Resolves("V", last_call.v_start) /\ Resolves("V", last_call.v_end)
    /\ last_call.u_start # last_call.u_end /\ last_call.v_start # last_call.v_end
    /\ ~PositionFilterAnswers(last_call)
    /\ Cardinality(DistinctPositions("U")) > 1
    /\ last_call.result # WithinSpan(last_call, 500)

\* whether the query q, without type filter, runs from the first to the last
\* tag of each family, the tags taken in the order of the query
\* (V: number, then position; U: first letter, then position)
OverAllAxes(q) ==
    LET v == StableSort(AxesOf("V"), ByNumKeyThenPosition, PairLess)
        u == StableSort(AxesOf("U"), ByFirstCharThenPosition, PairLess)
    IN  /\ v # <<>> /\ u # <<>>
        /\ q.v_start = v[1].tag /\ q.v_end = v[Len(v)].tag
        /\ q.u_start = u[1].tag /\ q.u_end = u[Len(u)].tag
        /\ q.element_type = NoType

\* express ids of all extracted elements, in registry order
AllExpressIds == [i \in 1..Len(elements) |-> elements[i].express_id]

\* C17 as stated: a grid-area query from the first to the last tag of the U
\* family and of the V family, without type filter, returns the express ids
\* of all extracted elements, whichever strategy answers.
C17_WholeRangeReturnsAllElements ==
    (last_call.op = "get_express_ids_by_grid_area" /\ OverAllAxes(last_call))
    => last_call.result = AllExpressIds

\* C17 amended: such a query returns the express ids of all extracted
\* elements when the proportional strategy answers; when the position-based
\* filter answers, it returns those of the elements with x and y within
\* 500 mm of the span between the first and the last axis of each family,
\* and of no other element.
C17_WholeRangeReturnsElementsNearGrid ==
    (last_call.op = "get_express_ids_by_grid_area" /\ OverAllAxes(last_call))
    => last_call.result = IF PositionFilterAnswers(last_call)
                          THEN WithinSpan(last_call, 500)
                          ELSE AllExpressIds

\* a query over all axes answered by the position filter that leaves out an
\* element lying outside the grid
C17_Witness ==
    /\ last_call.op = "get_express_ids_by_grid_area" /\ OverAllAxes(last_call)
    /\ PositionFilterAnswers(last_call)
    /\ last_call.result # <<>>
    /\ Len(last_call.result) < Len(elements)

\* whether a stage of the registry carries the stage_id
StageHeld(stage_id) == \E i \in 1..Len(stages) : stages[i].stage_id = stage_id

\* C18: a call that names a zone_id or stage_id the service does not hold
\* is answered "not found", an answer other than the one for a held zone
\* or stage without elements: update_zone reports that the zone was not
\* found, and get_elements_by_zone, get_elements_by_stage,
\* get_express_ids_by_zone and get_express_ids_by_stage do not answer with
\* the empty list, which is their answer for a zone or stage without
\* elements.
C18_UnknownIdAnsweredNotFound ==
    /\ (last_call.op = "update_zone" /\ last_call.zone_id \notin DOMAIN zones)
           => ~last_call.found
    /\ (/\ last_call.op \in {"get_elements_by_zone", "get_express_ids_by_zone"}
        /\ last_call.zone_id \notin DOMAIN zones)
           => last_call.result # <<>>
    /\ (/\ last_call.op \in {"get_elements_by_stage", "get_express_ids_by_stage"}
        /\ ~StageHeld(last_call.stage_id))
           => last_call.result # <<>>

\* whether an endpoint tag of the range names no axis of its family
Malformed(g) ==
    \/ ~Resolves("V", g.v_start) \/ ~Resolves("V", g.v_end)
    \/ ~Resolves("U", g.u_start) \/ ~Resolves("U", g.u_end)

\* C19: a grid-area range with an endpoint tag that names no axis of its
\* family is refused: get_express_ids_by_grid_area does not answer it with
\* a list of express ids, and generate_from_user_sequences does not
\* register a zone for a declaration that carries it.
C19_MalformedRangeRefused ==
    /\ (last_call.op = "get_express_ids_by_grid_area" /\ Malformed(last_call))
           => last_call.result \notin Seq(Nat)
    /\ last_call.op = "generate_from_user_sequences"
           => \A i \in 1..Len(last_call.request.sequences) :
                  Malformed(last_call.request.sequences[i].grid_selection)
                  => last_call.request.sequences[i].sequence_number
                         \notin DOMAIN zones

\* the express id of the element a zone or stage lists as id: the key of an
\* element of the registry, or, in a zone or stage of
\* generate_from_user_sequences, the express id written out in digits
ExpressIdOfMember(id) ==
    IF HasElem(elements, id) THEN ElemAt(elements, id).express_id
    ELSE IntOf(id)

ExpressIdsOfMembers(ids) ==
    [i \in 1..Len(ids) |-> ExpressIdOfMember(ids[i])]

\* the stage that answers for stage_id
StageAnswering(stage_id) ==
    stages[Min({i \in 1..Len(stages) : stages[i].stage_id = stage_id})]

\* C20: for a stage of the registry, whichever of analyze, update_zone and
\* generate_from_user_sequences wrote it, get_express_ids_by_stage returns
\* the express ids of the stage's elements, one per element; likewise
\* get_express_ids_by_zone returns one express id per element of the zone.
C20_ExpressIdPerElement ==
    /\ (last_call.op = "get_express_ids_by_stage" /\ StageHeld(last_call.stage_id))
           => last_call.result
                  = ExpressIdsOfMembers(StageAnswering(last_call.stage_id).elements)
    /\ (last_call.op = "get_express_ids_by_zone" /\ last_call.zone_id \in DOMAIN zones)
           => last_call.result
                  = ExpressIdsOfMembers(zones[last_call.zone_id].elements)

\* how many times the stages of zone z list id
Occurrences(id, ids) == Cardinality({k \in 1..Len(ids) : ids[k] = id})

StageListings(z, id) ==
    LET of == SelectSeq(stages, LAMBDA s : s.zone_id = z)
        cnt[k \in 0..Len(of)] ==
            IF k = 0 THEN 0 ELSE cnt[k - 1] + Occurrences(id, of[k].elements)
    IN  cnt[Len(of)]

\* C22: after analyze, every element id a zone lists is listed by exactly
\* one stage of that zone, once, and every stage lists only ids that its
\* zone lists.
C22_ZoneElementsStagedOnce ==
    analyzed =>
        /\ \A z \in DOMAIN zones : \A id \in Range(zones[z].elements) :
               StageListings(z, id) = 1
        /\ \A i \in 1..Len(stages) :
               /\ stages[i].zone_id \in DOMAIN zones
               /\ Range(stages[i].elements)
                      \subseteq Range(zones[stages[i].zone_id].elements)

\* the sequence numbers of the declarations are pairwise different
OneZonePerDeclaration(request) ==
    \A i, j \in 1..Len(request.sequences) :
        request.sequences[i].sequence_number = request.sequences[j].sequence_number
            => i = j

\* the ids the stages of zone z with the category list
StagedIds(z, category) ==
    UNION {Range(stages[i].elements) :
              i \in {k \in 1..Len(stages) : /\ stages[k].zone_id = z
                                             /\ stages[k].element_type = category}}

\* C23: after generate_from_user_sequences the sub-ranges of a declaration
\* share no element: the stages of its zone list every express id at most
\* once, the zone's element list holds no id twice, and its element_counts
\* give the number of distinct elements of each category.
C23_SubRangesShareNoElement ==
    (/\ last_call.op = "generate_from_user_sequences"
     /\ OneZonePerDeclaration(last_call.request))
        => \A z \in DOMAIN zones :
               /\ \A id \in Range(zones[z].elements) :
                      /\ StageListings(z, id) <= 1
                      /\ Occurrences(id, zones[z].elements) = 1
               /\ \A c \in DOMAIN zones[z].element_counts :
                      zones[z].element_counts[c] = Cardinality(StagedIds(z, c))

\* the element sets of the stages of zone z in a stage list
StageElementSets(st, z) ==
    {Range(st[i].elements) : i \in {k \in 1..Len(st) : st[k].zone_id = z}}

\* how many stages of zone z in a stage list hold the element set S
StagesHolding(st, z, S) ==
    Cardinality({i \in 1..Len(st) : st[i].zone_id = z /\ Range(st[i].elements) = S})

\* C24: update_zone on an existing zone with a new name and no range leaves
\* the zone's element list as it was and leaves the zone with as many
\* stages as before, holding the same element sets, whether analyze or
\* generate_from_user_sequences wrote the zone.
C24_RenamingKeepsZoneAndStages ==
    [][\A zone_id \in ZoneIds, edit \in Edits :
          (/\ zone_id \in DOMAIN zones
           /\ edit.x_range = NoRange /\ edit.y_range = NoRange
           /\ UpdateZone(zone_id, edit.name, edit.x_range, edit.y_range))
          => /\ zones'[zone_id].elements = zones[zone_id].elements
             /\ \A S \in StageElementSets(stages, zone_id)
                          \cup StageElementSets(stages', zone_id) :
                    StagesHolding(stages', zone_id, S) = StagesHolding(stages, zone_id, S)]_vars

\* the suggestions of the review held, none when no review is held
Suggestions == IF reviews = <<>> THEN <<>> ELSE reviews[1].suggestions

\* the status of the first suggestion with the id
StatusOf(suggestion_id) ==
    Suggestions[Min({i \in 1..Len(Suggestions) : Suggestions[i].id = suggestion_id})].status

\* C25: the status of a suggestion is one of pending, accepted, rejected and
\* ignored; update_suggestion answered for a suggestion of the review leaves it
\* accepted after accept, rejected after reject and ignored after ignore, and
\* refuses any other action.
C25_SuggestionStatusKnown ==
    /\ \A i \in 1..Len(Suggestions) :
           Suggestions[i].status \in {pending, accepted, rejected, ignored}
    /\ (/\ last_call.op = "update_suggestion"
        /\ \E i \in 1..Len(Suggestions) : Suggestions[i].id = last_call.suggestion_id)
       => IF last_call.action = accept
          THEN last_call.code = 200 /\ StatusOf(last_call.suggestion_id) = accepted
          ELSE IF last_call.action = reject
          THEN last_call.code = 200 /\ StatusOf(last_call.suggestion_id) = rejected
          ELSE IF last_call.action = ignore
          THEN last_call.code = 200 /\ StatusOf(last_call.suggestion_id) = ignored
          ELSE last_call.code = 400

\* an error suggestion of the review is still pending
ErrorPending(review) ==
    \E i \in 1..Len(review.suggestions) :
        /\ review.suggestions[i].severity = "error"
        /\ review.suggestions[i].status = pending

\* C26: a finalize_review call on a review with a pending error suggestion
\* fails and leaves status, reviewed_by and comments as they were; on any
\* other review it succeeds and leaves the status finalized.
C26_FinalizeOnlyWithoutPendingError ==
    [][FinalizeReview(Reviewer, None)
         => IF ErrorPending(reviews[1])
            THEN ~last_call'.ok /\ reviews'[1].status = reviews[1].status
            ELSE /\ last_call'.ok
                 /\ reviews'[1].status = ReviewStatus("finalized", Reviewer, None)]_vars

\* finalisation was refused on a review with a pending error, after the
\* rule analysis had marked the review ai_reviewed
C26_Witness ==
    /\ last_call.op = "finalize_review"
    /\ ~last_call.ok
    /\ ErrorPending(reviews[1])
    /\ reviews[1].status.status = "ai_reviewed"

\* the earliest sequence_order of the stages of a category in a zone
EarliestOrder(zone, category) ==
    Min({zone.stages[i].sequence_order :
            i \in {k \in 1..Len(zone.stages) : zone.stages[k].element_type = category}})

\* two categories of the construction sequence are scheduled out of order in
\* the zone: the later one starts before the earlier one
OutOfOrder(zone) ==
    \E a, b \in 1..Len(CONSTRUCTION_SEQUENCE) :
        /\ a < b
        /\ \A c \in {a, b} : \E i \in 1..Len(zone.stages) :
               zone.stages[i].element_type = CONSTRUCTION_SEQUENCE[c]
        /\ EarliestOrder(zone, CONSTRUCTION_SEQUENCE[b])
               < EarliestOrder(zone, CONSTRUCTION_SEQUENCE[a])

\* C27: a rule analysis adds a sequence warning for a zone exactly when two
\* categories of the construction sequence are scheduled out of order in it.
C27_SequenceWarningWhenOutOfOrder ==
    [][RunRuleAnalysis
         => \A k \in 1..Len(reviews[1].zones) :
                OutOfOrder(reviews[1].zones[k])
                <=> \E i \in (Len(reviews[1].suggestions) + 1)..Len(reviews'[1].suggestions) :
                        /\ reviews'[1].suggestions[i].type = "sequence"
                        /\ reviews'[1].suggestions[i].severity = "warning"
                        /\ reviews'[1].suggestions[i].title.count
                               = reviews[1].zones[k].zone_id]_vars

\* every stage of the review carries the id of the zone that holds it
StagesCarryTheirZone(review) ==
    \A k \in 1..Len(review.zones) : \A i \in 1..Len(review.zones[k].stages) :
        review.zones[k].stages[i].zone_id = review.zones[k].zone_id

C29_StageIdsStayDistinct ==
    reviews # <<>>
    => \A i, j \in 1..Len(AllStages(reviews[1])) :
           i # j => AllStages(reviews[1])[i].stage_id # AllStages(reviews[1])[j].stage_id

\* the element ids that the stages of the review list
AssignedIds(review) ==
    {id \in 1..Len(elements) + 9 :
        \E k \in 1..Len(review.zones) : \E i \in 1..Len(review.zones[k].stages) :
            \E m \in 1..Len(review.zones[k].stages[i].element_ids) :
                review.zones[k].stages[i].element_ids[m] = id}

\* the last call was an edit of the review: create_review, create_stage,
\* delete_stage, create_zone, delete_zone, or update_stage with element_ids
\* or a zone
EditedReview ==
    \/ last_call.op \in {"create_review", "create_stage", "delete_stage",
                         "create_zone", "delete_zone"}
    \/ /\ last_call.op = "update_stage"
       /\ {"element_ids", "zone_id"} \cap DOMAIN last_call.updates # {}

\* C30: after an edit of the review, assigned_elements is the number of
\* distinct element ids over the stages of all its zones.
C30_AssignedElementsCounted ==
    (reviews # <<>> /\ EditedReview)
    => reviews[1].assigned_elements = Cardinality(AssignedIds(reviews[1]))

\* the elements that _detect_zones was run on, and the tiles it kept
TiledElements == last_call.elements

MaxXOf(els) == Max({els[i].x : i \in 1..Len(els)})

MaxYOf(els) == Max({els[i].y : i \in 1..Len(els)})

MinXOf(els) == Min({els[i].x : i \in 1..Len(els)})

MinYOf(els) == Min({els[i].y : i \in 1..Len(els)})

\* the element is a member of one of the tiles kept
InSomeTile(e) ==
    \E k \in 1..Len(last_call.tiles) :
        \E m \in 1..Len(last_call.tiles[k].elements) :
            last_call.tiles[k].elements[m] = e.global_id

\* the tile count divides the range: the tile width is a whole number
TilesExact(range) == range % NumZones(range) = 0

\* the upper edge of the last tile along an axis
LastEdge(lo, range) == TileEdges(lo, range, NumZones(range))[NumZones(range)][2]

\* C21, as stated: automatic partitioning places an element in a zone only
\* if its x is below the largest x and its y below the largest y of all
\* elements.
C21_MaximaInNoZone ==
    last_call.op = "_detect_zones"
    => \A i \in 1..Len(TiledElements) :
           InSomeTile(TiledElements[i])
           => /\ TiledElements[i].x < MaxXOf(TiledElements)
              /\ TiledElements[i].y < MaxYOf(TiledElements)

\* C21, amended: along an axis whose range the tile count divides, the upper
\* edge of the last tile is the largest coordinate of the elements, and
\* automatic partitioning places no element with that coordinate in a zone.
C21_MaximaInNoZoneWhenTilesExact ==
    last_call.op = "_detect_zones"
    => LET els == TiledElements
           x_range == MaxXOf(els) - MinXOf(els)
           y_range == MaxYOf(els) - MinYOf(els)
       IN  /\ TilesExact(x_range)
              => /\ LastEdge(MinXOf(els), x_range) = FloatOf(MaxXOf(els))
                 /\ \A i \in 1..Len(els) :
                        InSomeTile(els[i]) => els[i].x < MaxXOf(els)
           /\ TilesExact(y_range)
              => /\ LastEdge(MinYOf(els), y_range) = FloatOf(MaxYOf(els))
                 /\ \A i \in 1..Len(els) :
                        InSomeTile(els[i]) => els[i].y < MaxYOf(els)

\* a building of several tiles in x and in y with whole tile widths was
\* tiled: the element on the first corner is in a zone, those at the largest
\* x and the largest y are in none
C21_Witness ==
    /\ last_call.op = "_detect_zones"
    /\ TilesExact(MaxXOf(TiledElements) - MinXOf(TiledElements))
    /\ TilesExact(MaxYOf(TiledElements) - MinYOf(TiledElements))
    /\ NumZones(MaxXOf(TiledElements) - MinXOf(TiledElements)) > 1
    /\ NumZones(MaxYOf(TiledElements) - MinYOf(TiledElements)) > 1
    /\ InSomeTile(TiledElements[1])
    /\ \E i \in 1..Len(TiledElements) :
           TiledElements[i].x = MaxXOf(TiledElements) /\ ~InSomeTile(TiledElements[i])
    /\ \E i \in 1..Len(TiledElements) :
           TiledElements[i].y = MaxYOf(TiledElements) /\ ~InSomeTile(TiledElements[i])
====
